---- MODULE Spec2Model ----
(***************************************************************************)
(* Aguas de Coimbra integration: the data update coordinator               *)
(* (custom_components/aguas_coimbra/coordinator.py) and the cumulative     *)
(* sensor (custom_components/aguas_coimbra/sensor.py), across restarts of  *)
(* the host.                                                               *)
(*                                                                         *)
(* Encoding.  A Python Optional is a sequence of length at most one:       *)
(* None is <<>> and a value v is <<v>>.  A date string without its offset  *)
(* suffix is represented by its rank in Python's string order: 0 is the    *)
(* empty string, 1..MaxT are reading timestamps of one ISO format (their   *)
(* string order is their time order), and Garbage is a string that is no   *)
(* timestamp (it starts with a letter, so it sorts after every timestamp). *)
(* A raw reading date is such a timestamp followed by an offset suffix.    *)
(* Consumption and cumulative_value are in whole litres.  A stored state   *)
(* string is either one that float() parses, kept as the number it spells, *)
(* or one for which float() raises (such as "unknown").                    *)
(***************************************************************************)
EXTENDS Integers, Sequences, FiniteSets, TLC

\* ---------------------------------------------------------------- bounds
\* Reading timestamps are 1..MaxT; a fetched window holds at most one
\* reading per timestamp, so MaxT also bounds the window length.
MaxT == 2
\* Ticks that would take cumulative_value above MaxCum are not explored.
MaxCum == 4
\* The aggregator is given readings dated within Span days of February 1,
\* in lists of at most MaxWindow records, at clock values from February 1
\* to NowSpan days later.
Span == 1
NowSpan == 8
MaxWindow == 2
\* The readings the server comes to hold while several refreshes are followed.
MaxServed == 3
\* The refreshes that can await their network call at once.
MaxInflight == 2
\* The readings the server comes to hold while a rolling window is followed.
MaxRoll == 4
\* Windows of up to KeepReadings + Extra readings are explored where the
\* number of readings kept matters.
Extra == 1

\* ------------------------------------------------------------- constants
\* coordinator.py: "all_readings": sorted_data[:100].  No window drawn here
\* is that long, so the sensor is given every reading that was fetched.
KeepReadings == 100

None == <<>>
Some(v) == <<v>>
IsNone(o) == o = <<>>
Val(o) == o[1]

EmptyStr == 0
Times == 1..MaxT
Garbage == MaxT + 1
\* Every str a last_processed_date attribute can hold.
DateStrs == {EmptyStr} \cup Times \cup {Garbage}
\* The two offset suffixes the code strips.
Suffixes == {"+00:00", "+01:00"}
\* Litres of one reading: a correction, nothing, a consumption.
Consumptions == {-1, 0, 2}
\* Numbers a persisted state string can spell.
PersistedNumbers == {-1, 0, 2}
ApiErrors == {"LoginError", "ConnectionError", "InvalidResponseError"}

RawDate(t, sfx) == [ts |-> t, sfx |-> sfx]
Reading(t, sfx, c) == [date |-> RawDate(t, sfx), consumption |-> c]

\* reading["date"].replace("+00:00", "").replace("+01:00", "")
Normalize(date) == date.ts

\* Python truthiness of a str | None: None and "" are falsy.
Truthy(o) == ~IsNone(o) /\ Val(o) # EmptyStr

\* ---------------------------------------------------- coordinator.py
\* Variant of SortedData: the list is used as fetched.
SortedData_Unsorted(data) == data

\* sorted(data, key=..., reverse=True): most recent first, and records of
\* the same date in the order they had (the sort is stable).  A record's
\* place is the number of records that come no later than it: those of a
\* later date, and those of its own date up to itself in the list.
Place(data, i) ==
    Cardinality({j \in 1..Len(data) :
                   \/ Normalize(data[j].date) > Normalize(data[i].date)
                   \/ Normalize(data[j].date) = Normalize(data[i].date) /\ j <= i})

\* The places of all records, each with the index of its record.
Places(data) == {<<Place(data, i), i>> : i \in 1..Len(data)}

Arranged(data, places) ==
    [k \in 1..Len(data) |-> data[(CHOOSE p \in places : p[1] = k)[2]]]

SortedData(data) == Arranged(data, Places(data))

Take(s, n) == SubSeq(s, 1, IF Len(s) < n THEN Len(s) ELSE n)

\* _process_consumption_data: the fields the sensors read that do not
\* depend on the clock.
ProcessConsumptionData(data) ==
    IF data = <<>>
    THEN [latest_reading |-> None, last_reading_date |-> None, all_readings |-> <<>>]
    ELSE LET sorted_data == SortedData(data)
             latest == sorted_data[1]
         IN [latest_reading |-> Some(latest.consumption),
             last_reading_date |-> Some(latest.date),
             all_readings |-> Take(sorted_data, KeepReadings)]

\* ------------------------------------------------ malformed records
\* A record of the wire format is a Python dict: a key it lacks is a field
\* the record does not have.
Has(r, k) == k \in DOMAIN r
\* dict.get(key, default)
Get(r, k, default) == IF Has(r, k) THEN r[k] ELSE default

\* A consumption that is no number (a JSON string or null), coded by an
\* integer that no reading's litres reach.
NonNumeric == 99
IsNumber(c) == c # NonNumeric
\* A date string with no offset suffix to strip: "" or a non-timestamp.
BareDate(s) == [ts |-> s, sfx |-> ""]
\* "if not reading_date_str": the empty string.
IsEmptyDate(date) == date.ts = EmptyStr /\ date.sfx = ""

\* datetime.fromisoformat on a normalized date string succeeds on every
\* timestamp and raises ValueError on the other strings.
IsIsoFormat(s) == s # EmptyStr /\ s # Garbage

\* ------------------------------------------------------- the calendar
\* Where the clock matters a timestamp string is coded by its hour count in
\* a non-leap year, 24 * (day of the year) + hour of the day, so that string
\* order is still integer order.  January 31 is day 31, February 1 day 32.
DaysInJanuary == 31
At(day, hour) == 24 * day + hour
DayOf(t) == t \div 24
\* Reading dates: midnight of the days within Span days of February 1.
ReadingInstants ==
    {At(d, 0) : d \in (DaysInJanuary + 1 - Span)..(DaysInJanuary + 1 + Span)}
\* Values of datetime.now(): February 1 to NowSpan days later, at midnight
\* or at noon.
NowHours == {0, 12}
Nows == {At(DaysInJanuary + 1 + k, h) : k \in 0..NowSpan, h \in NowHours}

\* now.replace(hour=0, minute=0, second=0, microsecond=0)
TodayStart(now) == At(DayOf(now), 0)
\* Variant of WeekStart: seven days back from now, not from midnight.
WeekStart_FromNow(now) == now - At(7, 0)

\* Variant of WeekStart: seven days after midnight, not before.
WeekStart_Ahead(now) == TodayStart(now) + At(7, 0)

\* today_start - timedelta(days=7)
WeekStart(now) == TodayStart(now) - At(7, 0)
\* now.replace(day=1, hour=0, minute=0, second=0, microsecond=0)
MonthStart(now) ==
    At(IF DayOf(now) <= DaysInJanuary THEN 1 ELSE DaysInJanuary + 1, 0)

\* ------------------------------------- coordinator.py, with the clock
\* What a call gives: a value returned or an exception raised.
Returned(v) == [raised |-> None, value |-> Some(v)]
Raised(e) == [raised |-> Some(e), value |-> None]

\* The loops over a list below go through it in list order; a list of more
\* than one element is gone through as its first half, then its second
\* half on what the first half left, which is the same loop.  (TLC
\* evaluates an operator's arguments when they are first used: each loop
\* looks at what its first half left before it starts on the second, so
\* that the halves are evaluated in order and in shallow recursion.)

\* The key function of sorted() is applied to the records in list order
\* and is not inside any try: x["date"] raises KeyError and fromisoformat
\* raises ValueError.
RECURSIVE SortKeyError(_)
SortKeyError(data) ==
    IF data = <<>> THEN None
    ELSE IF Len(data) > 1
    THEN LET half == Len(data) \div 2
             first == SortKeyError(SubSeq(data, 1, half))
         IN IF ~IsNone(first) THEN first
            ELSE SortKeyError(SubSeq(data, half + 1, Len(data)))
    ELSE IF ~Has(Head(data), "date") THEN Some("KeyError")
    ELSE IF ~IsIsoFormat(Normalize(Head(data).date)) THEN Some("ValueError")
    ELSE SortKeyError(Tail(data))

\* latest.get("cil")
Cil(latest) == IF Has(latest, "cil") THEN Some(latest.cil) ELSE None

NoTotals ==
    [raised |-> None, cumulative_total |-> 0, daily_total |-> 0,
     weekly_total |-> 0, monthly_total |-> 0]

\* The loop "for reading in sorted_data" of coordinator.py.  ValueError and
\* KeyError are caught and the reading is passed over; the TypeError of
\* adding a consumption that is no number is not caught.
RECURSIVE SumTotals(_, _, _)
SumTotals(readings, now, acc) ==
    IF readings = <<>> \/ ~IsNone(acc.raised) THEN acc
    ELSE IF Len(readings) > 1
    THEN LET half == Len(readings) \div 2
         IN SumTotals(SubSeq(readings, half + 1, Len(readings)), now,
                      SumTotals(SubSeq(readings, 1, half), now, acc))
    ELSE LET reading == Head(readings)
         IN IF ~Has(reading, "date") \/ ~IsIsoFormat(Normalize(reading.date))
            THEN SumTotals(Tail(readings), now, acc)
            ELSE LET reading_date == Normalize(reading.date)
                     consumption == Get(reading, "consumption", 0)
                 IN IF ~IsNumber(consumption)
                    THEN [acc EXCEPT !.raised = Some("TypeError")]
                    ELSE SumTotals(Tail(readings), now,
                           [raised |-> None,
                            cumulative_total |-> acc.cumulative_total + consumption,
                            daily_total |-> acc.daily_total +
                               (IF reading_date >= TodayStart(now) THEN consumption ELSE 0),
                            weekly_total |-> acc.weekly_total +
                               (IF reading_date >= WeekStart(now) THEN consumption ELSE 0),
                            monthly_total |-> acc.monthly_total +
                               (IF reading_date >= MonthStart(now) THEN consumption ELSE 0)])

\* _process_consumption_data of coordinator.py at the clock value now: the
\* snapshot returned (without the constant meter_number) or the exception
\* that leaves the function.
ProcessConsumptionDataNow(data, now) ==
    IF data = <<>>
    THEN Returned([latest_reading |-> None, cumulative_total |-> 0,
                   daily_total |-> 0, weekly_total |-> 0, monthly_total |-> 0,
                   last_reading_date |-> None, all_readings |-> <<>>])
    ELSE IF ~IsNone(SortKeyError(data)) THEN Raised(Val(SortKeyError(data)))
    ELSE LET sorted_data == SortedData(data)
             latest == sorted_data[1]
         IN IF ~Has(latest, "consumption") THEN Raised("KeyError")
            ELSE LET t == SumTotals(sorted_data, now, NoTotals)
                     p == ProcessConsumptionData(data)
                 IN IF ~IsNone(t.raised) THEN Raised(Val(t.raised))
                    ELSE Returned([latest_reading |-> p.latest_reading,
                                   cumulative_total |-> t.cumulative_total,
                                   daily_total |-> t.daily_total,
                                   weekly_total |-> t.weekly_total,
                                   monthly_total |-> t.monthly_total,
                                   last_reading_date |-> p.last_reading_date,
                                   cil |-> Cil(latest),
                                   all_readings |-> p.all_readings])

\* ------------------------------------------------ coordinator_fixed.py
NoTotalsFixed ==
    [raised |-> None, daily_total |-> 0, weekly_total |-> 0, monthly_total |-> 0,
     negative_values_count |-> 0, adjustments_total |-> 0]

\* Variant of SumTotalsFixed: a negative reading is counted only when it is
\* dated within the current month.
RECURSIVE SumTotalsFixed_CountInRange(_, _, _, _)
SumTotalsFixed_CountInRange(readings, now, filter_negative_values, acc) ==
    IF readings = <<>> \/ ~IsNone(acc.raised) THEN acc
    ELSE LET reading == Head(readings)
         IN IF ~Has(reading, "date") \/ ~IsIsoFormat(Normalize(reading.date))
            THEN SumTotalsFixed_CountInRange(Tail(readings), now,
                                             filter_negative_values, acc)
            ELSE LET reading_date == Normalize(reading.date)
                     consumption == Get(reading, "consumption", 0)
                     counted == IF consumption < 0 /\ reading_date >= MonthStart(now)
                                THEN [acc EXCEPT
                                        !.negative_values_count = @ + 1,
                                        !.adjustments_total = @ + consumption]
                                ELSE acc
                 IN IF ~IsNumber(consumption)
                    THEN [acc EXCEPT !.raised = Some("TypeError")]
                    ELSE IF consumption < 0 /\ filter_negative_values
                    THEN SumTotalsFixed_CountInRange(Tail(readings), now,
                                                     filter_negative_values, counted)
                    ELSE SumTotalsFixed_CountInRange(Tail(readings), now,
                           filter_negative_values,
                           [counted EXCEPT
                              !.daily_total = @ +
                                 (IF reading_date >= TodayStart(now) THEN consumption ELSE 0),
                              !.weekly_total = @ +
                                 (IF reading_date >= WeekStart(now) THEN consumption ELSE 0),
                              !.monthly_total = @ +
                                 (IF reading_date >= MonthStart(now) THEN consumption ELSE 0)])

\* The loop "for reading in sorted_data" of coordinator_fixed.py.
RECURSIVE SumTotalsFixed(_, _, _, _)
SumTotalsFixed(readings, now, filter_negative_values, acc) ==
    IF readings = <<>> \/ ~IsNone(acc.raised) THEN acc
    ELSE IF Len(readings) > 1
    THEN LET half == Len(readings) \div 2
         IN SumTotalsFixed(SubSeq(readings, half + 1, Len(readings)), now,
                           filter_negative_values,
                           SumTotalsFixed(SubSeq(readings, 1, half), now,
                                          filter_negative_values, acc))
    ELSE LET reading == Head(readings)
         IN IF ~Has(reading, "date") \/ ~IsIsoFormat(Normalize(reading.date))
            THEN SumTotalsFixed(Tail(readings), now, filter_negative_values, acc)
            ELSE LET reading_date == Normalize(reading.date)
                     consumption == Get(reading, "consumption", 0)
                     counted == IF consumption < 0
                                THEN [acc EXCEPT
                                        !.negative_values_count = @ + 1,
                                        !.adjustments_total = @ + consumption]
                                ELSE acc
                 IN IF ~IsNumber(consumption)
                    THEN [acc EXCEPT !.raised = Some("TypeError")]
                    ELSE IF consumption < 0 /\ filter_negative_values
                    THEN SumTotalsFixed(Tail(readings), now, filter_negative_values, counted)
                    ELSE SumTotalsFixed(Tail(readings), now, filter_negative_values,
                           [counted EXCEPT
                              !.daily_total = @ +
                                 (IF reading_date >= TodayStart(now) THEN consumption ELSE 0),
                              !.weekly_total = @ +
                                 (IF reading_date >= WeekStart(now) THEN consumption ELSE 0),
                              !.monthly_total = @ +
                                 (IF reading_date >= MonthStart(now) THEN consumption ELSE 0)])

\* Variant of Clamp: max(0, total) whatever the flag.
Clamp_Always(filter_negative_values, total) ==
    IF total < 0 THEN 0 ELSE total

\* max(0, total) if self.filter_negative_values else total
Clamp(filter_negative_values, total) ==
    IF filter_negative_values /\ total < 0 THEN 0 ELSE total

\* Variant of ProcessConsumptionDataFixed: the flag is not passed on, and
\* the sums are made as with filter_negative_values false.
ProcessConsumptionDataFixed_FlagDropped(data, now, filter_negative_values) ==
    IF data = <<>>
    THEN Returned([latest_reading |-> None, daily_total |-> 0, weekly_total |-> 0,
                   monthly_total |-> 0, last_reading_date |-> None,
                   all_readings |-> <<>>, negative_values_found |-> 0,
                   adjustments_total |-> 0])
    ELSE IF ~IsNone(SortKeyError(data)) THEN Raised(Val(SortKeyError(data)))
    ELSE LET sorted_data == SortedData(data)
             latest == sorted_data[1]
         IN IF ~Has(latest, "consumption") THEN Raised("KeyError")
            ELSE LET t == SumTotalsFixed(sorted_data, now, FALSE,
                                         NoTotalsFixed)
                     p == ProcessConsumptionData(data)
                 IN IF ~IsNone(t.raised) THEN Raised(Val(t.raised))
                    ELSE Returned(
                           [latest_reading |-> p.latest_reading,
                            daily_total |-> Clamp(FALSE, t.daily_total),
                            weekly_total |-> Clamp(FALSE, t.weekly_total),
                            monthly_total |-> Clamp(FALSE, t.monthly_total),
                            last_reading_date |-> p.last_reading_date,
                            cil |-> Cil(latest),
                            all_readings |-> p.all_readings,
                            negative_values_found |-> t.negative_values_count,
                            adjustments_total |-> t.adjustments_total])

\* _process_consumption_data of coordinator_fixed.py.
ProcessConsumptionDataFixed(data, now, filter_negative_values) ==
    IF data = <<>>
    THEN Returned([latest_reading |-> None, daily_total |-> 0, weekly_total |-> 0,
                   monthly_total |-> 0, last_reading_date |-> None,
                   all_readings |-> <<>>, negative_values_found |-> 0,
                   adjustments_total |-> 0])
    ELSE IF ~IsNone(SortKeyError(data)) THEN Raised(Val(SortKeyError(data)))
    ELSE LET sorted_data == SortedData(data)
             latest == sorted_data[1]
         IN IF ~Has(latest, "consumption") THEN Raised("KeyError")
            ELSE LET t == SumTotalsFixed(sorted_data, now, filter_negative_values,
                                         NoTotalsFixed)
                     p == ProcessConsumptionData(data)
                 IN IF ~IsNone(t.raised) THEN Raised(Val(t.raised))
                    ELSE Returned(
                           [latest_reading |-> p.latest_reading,
                            daily_total |-> Clamp(filter_negative_values, t.daily_total),
                            weekly_total |-> Clamp(filter_negative_values, t.weekly_total),
                            monthly_total |-> Clamp(filter_negative_values, t.monthly_total),
                            last_reading_date |-> p.last_reading_date,
                            cil |-> Cil(latest),
                            all_readings |-> p.all_readings,
                            negative_values_found |-> t.negative_values_count,
                            adjustments_total |-> t.adjustments_total])

\* --------------------------------------------------------- sensor.py
\* Variant of ScanReadings: the skip test is < instead of <=.
RECURSIVE ScanReadings_SkipStrict(_, _, _)
ScanReadings_SkipStrict(readings, lpd, acc) ==
    IF readings = <<>> THEN acc
    ELSE LET reading == Head(readings)
             reading_date_str == Get(reading, "date", BareDate(EmptyStr))
             clean == Normalize(reading_date_str)
             consumption == Get(reading, "consumption", 0)
         IN IF IsEmptyDate(reading_date_str)
            THEN ScanReadings_SkipStrict(Tail(readings), lpd, acc)
            ELSE IF Truthy(lpd) /\ clean < Val(lpd)
            THEN ScanReadings_SkipStrict(Tail(readings), lpd, acc)
            ELSE IF ~IsNumber(consumption)
            THEN ScanReadings_SkipStrict(Tail(readings), lpd, acc)
            ELSE ScanReadings_SkipStrict(Tail(readings), lpd,
                   [incremental |-> acc.incremental + consumption,
                    most_recent_date |->
                       IF IsNone(acc.most_recent_date) \/ clean > Val(acc.most_recent_date)
                       THEN Some(clean) ELSE acc.most_recent_date])

\* Variant of ScanReadings: most_recent_date is the date of the reading
\* counted last, not the greatest one.
RECURSIVE ScanReadings_TrackLast(_, _, _)
ScanReadings_TrackLast(readings, lpd, acc) ==
    IF readings = <<>> THEN acc
    ELSE LET reading == Head(readings)
             reading_date_str == Get(reading, "date", BareDate(EmptyStr))
             clean == Normalize(reading_date_str)
             consumption == Get(reading, "consumption", 0)
         IN IF IsEmptyDate(reading_date_str)
            THEN ScanReadings_TrackLast(Tail(readings), lpd, acc)
            ELSE IF Truthy(lpd) /\ clean <= Val(lpd)
            THEN ScanReadings_TrackLast(Tail(readings), lpd, acc)
            ELSE IF ~IsNumber(consumption)
            THEN ScanReadings_TrackLast(Tail(readings), lpd, acc)
            ELSE ScanReadings_TrackLast(Tail(readings), lpd,
                   [incremental |-> acc.incremental + consumption,
                    most_recent_date |->
                       Some(clean)])

\* Variant of ScanReadings: the scan ends at the first reading whose
\* consumption cannot be added.
RECURSIVE ScanReadings_StopAtBad(_, _, _)
ScanReadings_StopAtBad(readings, lpd, acc) ==
    IF readings = <<>> THEN acc
    ELSE LET reading == Head(readings)
             reading_date_str == Get(reading, "date", BareDate(EmptyStr))
             clean == Normalize(reading_date_str)
             consumption == Get(reading, "consumption", 0)
         IN IF IsEmptyDate(reading_date_str)
            THEN ScanReadings_StopAtBad(Tail(readings), lpd, acc)
            ELSE IF Truthy(lpd) /\ clean <= Val(lpd)
            THEN ScanReadings_StopAtBad(Tail(readings), lpd, acc)
            ELSE IF ~IsNumber(consumption)
            THEN acc
            ELSE ScanReadings_StopAtBad(Tail(readings), lpd,
                   [incremental |-> acc.incremental + consumption,
                    most_recent_date |->
                       IF IsNone(acc.most_recent_date) \/ clean > Val(acc.most_recent_date)
                       THEN Some(clean) ELSE acc.most_recent_date])

\* The loop over all_readings in native_value.  lpd is
\* self._last_processed_date, which the loop never assigns; acc is
\* (incremental, most_recent_date).  A reading with no date or an empty one
\* is passed over; the TypeError of adding a consumption that is no number
\* is caught and the reading passed over.
\* Variant of ScanReadings: the reading's date is taken to UTC before the
\* skip test, last_processed_date is the stripped string.
RECURSIVE ScanReadings_SkipInUTC(_, _, _)
ScanReadings_SkipInUTC(readings, lpd, acc) ==
    IF readings = <<>> THEN acc
    ELSE LET reading == Head(readings)
             reading_date_str == Get(reading, "date", BareDate(EmptyStr))
             clean == Normalize(reading_date_str)
             utc == IF reading_date_str.sfx = "+01:00" THEN clean - 1 ELSE clean
             consumption == Get(reading, "consumption", 0)
         IN IF IsEmptyDate(reading_date_str)
            THEN ScanReadings_SkipInUTC(Tail(readings), lpd, acc)
            ELSE IF Truthy(lpd) /\ utc <= Val(lpd)
            THEN ScanReadings_SkipInUTC(Tail(readings), lpd, acc)
            ELSE IF ~IsNumber(consumption)
            THEN ScanReadings_SkipInUTC(Tail(readings), lpd, acc)
            ELSE ScanReadings_SkipInUTC(Tail(readings), lpd,
                   [incremental |-> acc.incremental + consumption,
                    most_recent_date |->
                       IF IsNone(acc.most_recent_date) \/ clean > Val(acc.most_recent_date)
                       THEN Some(clean) ELSE acc.most_recent_date])

\* Variant of ScanReadings: only a reading whose date equals
\* last_processed_date is skipped.
RECURSIVE ScanReadings_SkipEqualOnly(_, _, _)
ScanReadings_SkipEqualOnly(readings, lpd, acc) ==
    IF readings = <<>> THEN acc
    ELSE LET reading == Head(readings)
             reading_date_str == Get(reading, "date", BareDate(EmptyStr))
             clean == Normalize(reading_date_str)
             consumption == Get(reading, "consumption", 0)
         IN IF IsEmptyDate(reading_date_str)
            THEN ScanReadings_SkipEqualOnly(Tail(readings), lpd, acc)
            ELSE IF Truthy(lpd) /\ clean = Val(lpd)
            THEN ScanReadings_SkipEqualOnly(Tail(readings), lpd, acc)
            ELSE IF ~IsNumber(consumption)
            THEN ScanReadings_SkipEqualOnly(Tail(readings), lpd, acc)
            ELSE ScanReadings_SkipEqualOnly(Tail(readings), lpd,
                   [incremental |-> acc.incremental + consumption,
                    most_recent_date |->
                       IF IsNone(acc.most_recent_date) \/ clean > Val(acc.most_recent_date)
                       THEN Some(clean) ELSE acc.most_recent_date])

\* Variant of ScanReadings: the skip test is against the greatest date met
\* so far in the scan.
RECURSIVE ScanReadings_SkipRunningMax(_, _, _)
ScanReadings_SkipRunningMax(readings, lpd, acc) ==
    IF readings = <<>> THEN acc
    ELSE LET reading == Head(readings)
             reading_date_str == Get(reading, "date", BareDate(EmptyStr))
             clean == Normalize(reading_date_str)
             consumption == Get(reading, "consumption", 0)
         IN IF IsEmptyDate(reading_date_str)
            THEN ScanReadings_SkipRunningMax(Tail(readings), lpd, acc)
            ELSE IF Truthy(acc.most_recent_date) /\ clean <= Val(acc.most_recent_date)
            THEN ScanReadings_SkipRunningMax(Tail(readings), lpd, acc)
            ELSE IF ~IsNumber(consumption)
            THEN ScanReadings_SkipRunningMax(Tail(readings), lpd, acc)
            ELSE ScanReadings_SkipRunningMax(Tail(readings), lpd,
                   [incremental |-> acc.incremental + consumption,
                    most_recent_date |->
                       IF IsNone(acc.most_recent_date) \/ clean > Val(acc.most_recent_date)
                       THEN Some(clean) ELSE acc.most_recent_date])

\* Variant of ScanReadings: no reading is skipped for its date.
RECURSIVE ScanReadings_NoSkip(_, _, _)
ScanReadings_NoSkip(readings, lpd, acc) ==
    IF readings = <<>> THEN acc
    ELSE LET reading == Head(readings)
             reading_date_str == Get(reading, "date", BareDate(EmptyStr))
             clean == Normalize(reading_date_str)
             consumption == Get(reading, "consumption", 0)
         IN IF IsEmptyDate(reading_date_str)
            THEN ScanReadings_NoSkip(Tail(readings), lpd, acc)
            ELSE IF ~IsNumber(consumption)
            THEN ScanReadings_NoSkip(Tail(readings), lpd, acc)
            ELSE ScanReadings_NoSkip(Tail(readings), lpd,
                   [incremental |-> acc.incremental + consumption,
                    most_recent_date |->
                       IF IsNone(acc.most_recent_date) \/ clean > Val(acc.most_recent_date)
                       THEN Some(clean) ELSE acc.most_recent_date])

RECURSIVE ScanReadings(_, _, _)
ScanReadings(readings, lpd, acc) ==
    IF readings = <<>> THEN acc
    ELSE IF Len(readings) > 1
    THEN LET half == Len(readings) \div 2
             first == ScanReadings(SubSeq(readings, 1, half), lpd, acc)
         IN IF first = acc
            THEN ScanReadings(SubSeq(readings, half + 1, Len(readings)), lpd, acc)
            ELSE ScanReadings(SubSeq(readings, half + 1, Len(readings)), lpd, first)
    ELSE LET reading == Head(readings)
             reading_date_str == Get(reading, "date", BareDate(EmptyStr))
             clean == Normalize(reading_date_str)
             consumption == Get(reading, "consumption", 0)
         IN IF IsEmptyDate(reading_date_str)
            THEN ScanReadings(Tail(readings), lpd, acc)
            ELSE IF Truthy(lpd) /\ clean <= Val(lpd)
            THEN ScanReadings(Tail(readings), lpd, acc)
            ELSE IF ~IsNumber(consumption)
            THEN ScanReadings(Tail(readings), lpd, acc)
            ELSE ScanReadings(Tail(readings), lpd,
                   [incremental |-> acc.incremental + consumption,
                    most_recent_date |->
                       IF IsNone(acc.most_recent_date) \/ clean > Val(acc.most_recent_date)
                       THEN Some(clean) ELSE acc.most_recent_date])

Displayed(cum) == IF cum > 0 THEN Some(cum) ELSE None

\* Variant of NativeValue: commits whenever incremental is not 0.
NativeValue_CommitNonZero(cum, lpd, data) ==
    IF IsNone(data) \/ Val(data).all_readings = <<>>
    THEN [cumulative_value |-> cum, last_processed_date |-> lpd, value |-> Displayed(cum)]
    ELSE LET acc == ScanReadings(Val(data).all_readings, lpd,
                                 [incremental |-> 0, most_recent_date |-> lpd])
             commit == acc.incremental # 0
             cum2 == IF commit THEN cum + acc.incremental ELSE cum
             lpd2 == IF commit THEN acc.most_recent_date ELSE lpd
         IN [cumulative_value |-> cum2, last_processed_date |-> lpd2,
             value |-> Displayed(cum2)]

\* Variant of NativeValue: the scan ignores the last processed date.
NativeValue_Rescan(cum, lpd, data) ==
    IF IsNone(data) \/ Val(data).all_readings = <<>>
    THEN [cumulative_value |-> cum, last_processed_date |-> lpd, value |-> Displayed(cum)]
    ELSE LET acc == ScanReadings(Val(data).all_readings, None,
                                 [incremental |-> 0, most_recent_date |-> None])
             commit == acc.incremental > 0
             cum2 == IF commit THEN cum + acc.incremental ELSE cum
             lpd2 == IF commit THEN acc.most_recent_date ELSE lpd
         IN [cumulative_value |-> cum2, last_processed_date |-> lpd2,
             value |-> Displayed(cum2)]

\* Variant of NativeValue: commits cumulative_value but not the date.
NativeValue_NoDateCommit(cum, lpd, data) ==
    IF IsNone(data) \/ Val(data).all_readings = <<>>
    THEN [cumulative_value |-> cum, last_processed_date |-> lpd, value |-> Displayed(cum)]
    ELSE LET acc == ScanReadings(Val(data).all_readings, lpd,
                                 [incremental |-> 0, most_recent_date |-> lpd])
             commit == acc.incremental > 0
             cum2 == IF commit THEN cum + acc.incremental ELSE cum
         IN [cumulative_value |-> cum2, last_processed_date |-> lpd,
             value |-> Displayed(cum2)]

\* Variant of NativeValue: with no readings the total starts over.
NativeValue_ResetOnEmpty(cum, lpd, data) ==
    IF IsNone(data) \/ Val(data).all_readings = <<>>
    THEN [cumulative_value |-> 0, last_processed_date |-> None, value |-> None]
    ELSE LET acc == ScanReadings(Val(data).all_readings, lpd,
                                 [incremental |-> 0, most_recent_date |-> lpd])
             commit == acc.incremental > 0
             cum2 == IF commit THEN cum + acc.incremental ELSE cum
             lpd2 == IF commit THEN acc.most_recent_date ELSE lpd
         IN [cumulative_value |-> cum2, last_processed_date |-> lpd2,
             value |-> Displayed(cum2)]

\* Variant of NativeValue: a read that counts commits cumulative_value
\* only, and the date is committed by a later read that counts nothing.
NativeValue_DateNextRead(cum, lpd, data) ==
    IF IsNone(data) \/ Val(data).all_readings = <<>>
    THEN [cumulative_value |-> cum, last_processed_date |-> lpd, value |-> Displayed(cum)]
    ELSE LET acc == ScanReadings(Val(data).all_readings, lpd,
                                 [incremental |-> 0, most_recent_date |-> lpd])
             commit == acc.incremental > 0
             cum2 == IF commit THEN cum + acc.incremental ELSE cum
             lpd2 == IF commit THEN lpd ELSE acc.most_recent_date
         IN [cumulative_value |-> cum2, last_processed_date |-> lpd2,
             value |-> Displayed(cum2)]

\* Variant of NativeValue: the date advances to the newest reading scanned
\* whatever the increment.
NativeValue_AdvanceOnZero(cum, lpd, data) ==
    IF IsNone(data) \/ Val(data).all_readings = <<>>
    THEN [cumulative_value |-> cum, last_processed_date |-> lpd, value |-> Displayed(cum)]
    ELSE LET acc == ScanReadings(Val(data).all_readings, lpd,
                                 [incremental |-> 0, most_recent_date |-> lpd])
             commit == acc.incremental > 0
             cum2 == IF commit THEN cum + acc.incremental ELSE cum
         IN [cumulative_value |-> cum2, last_processed_date |-> acc.most_recent_date,
             value |-> Displayed(cum2)]

\* Variant of NativeValue: the fields are committed when the increment is
\* zero or more.
NativeValue_CommitNonNegative(cum, lpd, data) ==
    IF IsNone(data) \/ Val(data).all_readings = <<>>
    THEN [cumulative_value |-> cum, last_processed_date |-> lpd, value |-> Displayed(cum)]
    ELSE LET acc == ScanReadings(Val(data).all_readings, lpd,
                                 [incremental |-> 0, most_recent_date |-> lpd])
             commit == acc.incremental >= 0
             cum2 == IF commit THEN cum + acc.incremental ELSE cum
             lpd2 == IF commit THEN acc.most_recent_date ELSE lpd
         IN [cumulative_value |-> cum2, last_processed_date |-> lpd2,
             value |-> Displayed(cum2)]

\* The property native_value: the sensor's fields after the read and the
\* value returned.
NativeValue(cum, lpd, data) ==
    IF IsNone(data) \/ Val(data).all_readings = <<>>
    THEN [cumulative_value |-> cum, last_processed_date |-> lpd, value |-> Displayed(cum)]
    ELSE LET acc == ScanReadings(Val(data).all_readings, lpd,
                                 [incremental |-> 0, most_recent_date |-> lpd])
             commit == acc.incremental > 0
             cum2 == IF commit THEN cum + acc.incremental ELSE cum
             lpd2 == IF commit THEN acc.most_recent_date ELSE lpd
         IN [cumulative_value |-> cum2, last_processed_date |-> lpd2,
             value |-> Displayed(cum2)]

\* A persisted state string: a number, or a word such as "unknown".
NumState(n) == [num |-> TRUE, val |-> n]
WordState == [num |-> FALSE, val |-> 0]
StateStrs == {NumState(n) : n \in PersistedNumbers} \cup {WordState}
\* Persisted attributes: an empty mapping, or one with last_processed_date.
AttrsOf(d) == Some(d)
NoAttrs == None
Attributes == {NoAttrs} \cup {AttrsOf(None)} \cup {AttrsOf(Some(d)) : d \in DateStrs}
LastStates == {None} \cup {Some([state |-> s, attributes |-> a]) : s \in StateStrs, a \in Attributes}

\* Variant of AsyncAddedToHass: the date is restored before the value is
\* parsed and survives a parse failure.
AsyncAddedToHass_DateFirst(cum, lpd, ls) ==
    IF IsNone(ls) THEN [cumulative_value |-> cum, last_processed_date |-> lpd, ok |-> FALSE]
    ELSE LET date == IF IsNone(Val(ls).attributes) THEN lpd
                     ELSE Val(Val(ls).attributes)
         IN IF Val(ls).state.num
            THEN [cumulative_value |-> Val(ls).state.val,
                  last_processed_date |-> date, ok |-> TRUE]
            ELSE [cumulative_value |-> 0, last_processed_date |-> date, ok |-> FALSE]

\* async_added_to_hass: the sensor's fields after the restore, starting
\* from the constructor's 0.0 and None.
AsyncAddedToHass(cum, lpd, ls) ==
    IF IsNone(ls) THEN [cumulative_value |-> cum, last_processed_date |-> lpd, ok |-> FALSE]
    ELSE IF Val(ls).state.num
         THEN [cumulative_value |-> Val(ls).state.val,
               last_processed_date |->
                   IF IsNone(Val(ls).attributes) THEN lpd ELSE Val(Val(ls).attributes),
               ok |-> TRUE]
         ELSE [cumulative_value |-> 0, last_processed_date |-> None, ok |-> FALSE]

\* str(native_value) as the host writes it: "unknown" for None.
StateString(value) == IF IsNone(value) THEN WordState ELSE NumState(Val(value))
\* extra_state_attributes
ExtraStateAttributes(lpd) == AttrsOf(lpd)

\* ------------------------------------------------------------ windows
\* The lists a fetch can return: readings in any order, at most one per
\* timestamp, all carrying the offset suffix of the account's data.
WindowsOf(sfx) ==
    LET R == {Reading(t, sfx, c) : t \in Times, c \in Consumptions}
        All == UNION {[1..n -> R] : n \in 0..MaxT}
    IN {w \in All : \A i, j \in DOMAIN w : i # j => w[i].date.ts # w[j].date.ts}

Windows == [sfx \in Suffixes |-> WindowsOf(sfx)]

\* _async_update_data: the fetch returned the list `fetched`, or the API
\* client raised `err` (None when it did not).  An AguasCoimbraAPIError is
\* re-raised as UpdateFailed and the coordinator keeps the data it had.
AsyncUpdateData(old, fetched, err) ==
    IF IsNone(err)
    THEN [raised |-> None, data |-> Some(ProcessConsumptionData(fetched))]
    ELSE [raised |-> Some("UpdateFailed"), data |-> old]

\* _async_update_data without its except clause.
AsyncUpdateDataNow_Uncaught(old, fetched, err, n, filter) ==
    IF ~IsNone(err) THEN [raised |-> err, data |-> old]
    ELSE LET r == IF IsNone(filter)
                  THEN ProcessConsumptionDataNow(fetched, n)
                  ELSE ProcessConsumptionDataFixed(fetched, n, Val(filter))
         IN IF IsNone(r.raised)
            THEN [raised |-> None, data |-> r.value]
            ELSE [raised |-> r.raised, data |-> old]

\* _async_update_data of either coordinator (filter None for the one of
\* coordinator.py), reading the clock value n.  An exception that is no
\* AguasCoimbraAPIError is not caught; the host then keeps the old data.
\* _async_update_data keeping the earlier snapshot when it has more readings.
AsyncUpdateDataNow_KeepLonger(old, fetched, err, n, filter) ==
    IF ~IsNone(err) THEN [raised |-> Some("UpdateFailed"), data |-> old]
    ELSE LET r == IF IsNone(filter)
                  THEN ProcessConsumptionDataNow(fetched, n)
                  ELSE ProcessConsumptionDataFixed(fetched, n, Val(filter))
         IN IF IsNone(r.raised)
            THEN IF ~IsNone(old) /\ Len(Val(old).all_readings) > Len(Val(r.value).all_readings)
                 THEN [raised |-> None, data |-> old]
                 ELSE [raised |-> None, data |-> r.value]
            ELSE [raised |-> r.raised, data |-> old]

AsyncUpdateDataNow(old, fetched, err, n, filter) ==
    IF ~IsNone(err) THEN [raised |-> Some("UpdateFailed"), data |-> old]
    ELSE LET r == IF IsNone(filter)
                  THEN ProcessConsumptionDataNow(fetched, n)
                  ELSE ProcessConsumptionDataFixed(fetched, n, Val(filter))
         IN IF IsNone(r.raised)
            THEN [raised |-> None, data |-> r.value]
            ELSE [raised |-> r.raised, data |-> old]

VARIABLES
    suffix,                \* the offset suffix of the account's reading dates
    pc,                    \* "setup", "constructed", "added", "running"; or
                           \* "fetched", "updated", "read" where one tick is followed
    data,                  \* coordinator.data
    last_update_success,   \* FALSE while the last refresh raised UpdateFailed
    cumulative_value,      \* self._cumulative_value
    last_processed_date,   \* self._last_processed_date
    value,                 \* what native_value last returned
    last_state,            \* the state stored by the previous run, until this
                           \* run writes its own
    restored_ok,           \* history: float(last_state.state) succeeded in this run
    last_op,               \* history: "tick", "fail" or "read" once running
    pre_fail,              \* history: the sensor's fields when the fetch last failed
    pre_restart,           \* history: fields and data at the last restart, and
                           \* whether the first refresh after it fetched the same data
    consumption_data,      \* the list get_consumption returned to the tick followed
    now,                   \* history: datetime.now() read by that tick
    filter_negative_values,\* the field of coordinator_fixed.py's coordinator; None
                           \* for the coordinator of coordinator.py, which has none
    raised,                \* the exception that left the last handler, or None
    api_pc,                \* where the API client's call stands
    api_method,            \* the method called
    auth_token,            \* self._auth_token
    requests,              \* history: requests sent to the data endpoint in this call
    reauths,               \* history: logins after a 401 in this call
    api_result,            \* what the call returned or raised
    exchange,              \* history: the last exchange of this call with the
                           \* server: the endpoint, the token the client held
                           \* when it sent the request, and the response
    inflight,              \* the refreshes suspended at their network call, where
                           \* several are followed at once
    sequential,            \* history: the sensor's fields had the fetches been
                           \* made and read one after the other, in the order
                           \* they completed
    seen,                  \* history: the readings of the windows fetched so far
    late                   \* history: the readings that were first fetched when
                           \* last_processed_date had reached their date

sensorvars == <<suffix, pc, data, last_update_success, cumulative_value,
                last_processed_date, value, last_state, restored_ok, last_op,
                pre_fail, pre_restart>>
tickvars == <<consumption_data, now, filter_negative_values, raised>>
apivars == <<api_pc, api_method, auth_token, requests, reauths, api_result,
             exchange>>

refreshvars == <<inflight, sequential, seen, late>>

vars == <<sensorvars, tickvars, apivars, refreshvars>>

sensor == <<cumulative_value, last_processed_date>>

\* No single tick is followed.
NoTick ==
    /\ consumption_data = <<>>
    /\ now = 0
    /\ filter_negative_values = None
    /\ raised = None

\* No refresh is awaiting its network call.
NoRefresh ==
    /\ inflight = 0
    /\ sequential = None
    /\ seen = {}
    /\ late = {}

\* AguasCoimbraAPI.__init__: no token yet, no call made.
ApiInit ==
    /\ api_pc = "idle"
    /\ api_method = "none"
    /\ auth_token = None
    /\ requests = 0
    /\ reauths = 0
    /\ api_result = None
    /\ exchange = None

Init ==
    /\ suffix \in Suffixes
    /\ pc = "setup"
    /\ data = None
    /\ last_update_success = TRUE
    /\ cumulative_value = 0
    /\ last_processed_date = None
    /\ value = None
    /\ last_state \in LastStates
    /\ restored_ok = FALSE
    /\ last_op = "none"
    /\ pre_fail = None
    /\ pre_restart = None
    /\ NoTick
    /\ ApiInit
    /\ NoRefresh

\* async_setup_entry: the first refresh succeeds with window w, then the
\* sensor is constructed (AguasCoimbraCumulativeSensor.__init__).
\* (A bound variable ranging over a singleton names a result once.)
FirstRefresh ==
    /\ pc = "setup"
    /\ \E w \in Windows[suffix] :
       \E u \in {AsyncUpdateData(data, w, None)} :
          /\ data' = u.data
          /\ pre_restart' =
                IF IsNone(pre_restart) THEN None
                ELSE Some([Val(pre_restart) EXCEPT
                              !.same = (u.data = Val(pre_restart).data),
                              !.data = None])
    /\ last_update_success' = TRUE
    /\ cumulative_value' = 0
    /\ last_processed_date' = None
    /\ value' = None
    /\ pc' = "constructed"
    /\ UNCHANGED <<suffix, last_state, restored_ok, last_op, pre_fail>>
    /\ UNCHANGED <<tickvars, apivars, refreshvars>>

\* async_added_to_hass
AddedToHass ==
    /\ pc = "constructed"
    /\ \E r \in {AsyncAddedToHass(cumulative_value, last_processed_date, last_state)} :
          /\ cumulative_value' = r.cumulative_value
          /\ last_processed_date' = r.last_processed_date
          /\ restored_ok' = r.ok
    /\ pc' = "added"
    /\ UNCHANGED <<suffix, data, last_update_success, value, last_state, last_op,
                   pre_fail, pre_restart>>
    /\ UNCHANGED <<tickvars, apivars, refreshvars>>

\* The host reads native_value to write the state: right after the entity
\* is added, and at any later time.
ReadValue ==
    /\ pc \in {"added", "running"}
    /\ \E r \in {NativeValue(cumulative_value, last_processed_date, data)} :
          /\ cumulative_value' = r.cumulative_value
          /\ last_processed_date' = r.last_processed_date
          /\ value' = r.value
    /\ pc' = "running"
    /\ last_op' = IF pc = "added" THEN "tick" ELSE "read"
    /\ last_state' = None
    /\ pre_restart' = None
    /\ UNCHANGED <<suffix, data, last_update_success, restored_ok, pre_fail>>
    /\ UNCHANGED <<tickvars, apivars, refreshvars>>

\* A scheduled refresh that succeeds with window w; the coordinator then
\* notifies the sensor, whose native_value is read.
Tick ==
    /\ pc = "running"
    /\ \E w \in Windows[suffix] :
       \E u \in {AsyncUpdateData(data, w, None)} :
       \E r \in {NativeValue(cumulative_value, last_processed_date, u.data)} :
          /\ r.cumulative_value <= MaxCum
          /\ data' = u.data
          /\ last_update_success' = IsNone(u.raised)
          /\ cumulative_value' = r.cumulative_value
          /\ last_processed_date' = r.last_processed_date
          /\ value' = r.value
    /\ last_op' = "tick"
    /\ pre_fail' = None
    /\ UNCHANGED <<suffix, pc, last_state, restored_ok, pre_restart>>
    /\ UNCHANGED <<tickvars, apivars, refreshvars>>

\* A scheduled refresh whose fetch raises: UpdateFailed, and the sensor is
\* not read.
TickFailed ==
    /\ pc = "running"
    /\ \E err \in ApiErrors :
       \E u \in {AsyncUpdateData(data, <<>>, Some(err))} :
          /\ data' = u.data
          /\ last_update_success' = IsNone(u.raised)
    /\ last_op' = "fail"
    /\ pre_fail' = Some(sensor)
    /\ UNCHANGED <<suffix, pc, cumulative_value, last_processed_date, value,
                   last_state, restored_ok, pre_restart>>
    /\ UNCHANGED <<tickvars, apivars, refreshvars>>

\* The host stops and starts again: it stores the state it last wrote with
\* the sensor's attributes, and everything in memory is lost.
Restart ==
    /\ pc = "running"
    /\ last_state' = Some([state |-> StateString(value),
                           attributes |-> ExtraStateAttributes(last_processed_date)])
    /\ pre_restart' = Some([cumulative_value |-> cumulative_value,
                            last_processed_date |-> last_processed_date,
                            data |-> data,
                            same |-> FALSE])
    /\ pc' = "setup"
    /\ data' = None
    /\ last_update_success' = TRUE
    /\ cumulative_value' = 0
    /\ last_processed_date' = None
    /\ value' = None
    /\ restored_ok' = FALSE
    /\ last_op' = "none"
    /\ pre_fail' = None
    /\ UNCHANGED suffix
    /\ UNCHANGED <<tickvars, apivars, refreshvars>>

Next ==
    \/ FirstRefresh
    \/ AddedToHass
    \/ ReadValue
    \/ Tick
    \/ TickFailed
    \/ Restart

Spec == Init /\ [][Next]_vars

\* ==================================================================
\* The aggregator alone: one call of _process_consumption_data
\* ==================================================================

\* A record of the wire format; c and k are Optionals, None for a record
\* that has no "consumption" or no "cil".
WireRecord(d, c, k) ==
    IF IsNone(c)
    THEN IF IsNone(k) THEN [date |-> d] ELSE [date |-> d, cil |-> Val(k)]
    ELSE IF IsNone(k) THEN [date |-> d, consumption |-> Val(c)]
         ELSE [date |-> d, consumption |-> Val(c), cil |-> Val(k)]

\* The consumption and cil a dated record is given: a correction, a
\* consumption, and a consumption with a cil.
RecordFields ==
    {<<Some(-1), None>>, <<Some(2), None>>, <<Some(2), Some("cil")>>}

\* The records the aggregator is given: readings dated at ReadingInstants,
\* and one whose date is no timestamp.
AggRecords(sfx) ==
    {WireRecord(RawDate(t, sfx), f[1], f[2]) : t \in ReadingInstants, f \in RecordFields}
      \cup {WireRecord(BareDate(Garbage), Some(2), None)}

\* All lists of at most n records of R.
ListsOf(R, n) == UNION {[1..k -> R] : k \in 0..n}

AggWindows == [sfx \in Suffixes |-> ListsOf(AggRecords(sfx), MaxWindow)]

\* The sensor side, not involved: a sensor just constructed on no data.
SensorIdle ==
    /\ data = None
    /\ last_update_success = TRUE
    /\ cumulative_value = 0
    /\ last_processed_date = None
    /\ value = None
    /\ last_state = None
    /\ restored_ok = FALSE
    /\ last_op = "none"
    /\ pre_fail = None
    /\ pre_restart = None

\* get_consumption has returned consumption_data to a coordinator of
\* coordinator.py (filter_negative_values None) or of coordinator_fixed.py.
InitAgg ==
    /\ suffix \in Suffixes
    /\ pc = "fetched"
    /\ consumption_data \in AggWindows[suffix]
    /\ filter_negative_values \in {None, Some(TRUE), Some(FALSE)}
    /\ now = 0
    /\ raised = None
    /\ SensorIdle
    /\ ApiInit
    /\ NoRefresh

\* coordinator.py: self._process_consumption_data(consumption_data), which
\* reads the clock.
ProcessData ==
    /\ pc = "fetched"
    /\ IsNone(filter_negative_values)
    /\ \E n \in Nows :
       \E r \in {ProcessConsumptionDataNow(consumption_data, n)} :
          /\ now' = n
          /\ raised' = r.raised
          /\ data' = r.value
    /\ pc' = "updated"
    /\ UNCHANGED <<suffix, last_update_success, cumulative_value,
                   last_processed_date, value, last_state, restored_ok, last_op,
                   pre_fail, pre_restart, consumption_data,
                   filter_negative_values, apivars, refreshvars>>

\* coordinator_fixed.py: the same call on its coordinator.
ProcessDataFixed ==
    /\ pc = "fetched"
    /\ ~IsNone(filter_negative_values)
    /\ \E n \in Nows :
       \E r \in {ProcessConsumptionDataFixed(consumption_data, n,
                                             Val(filter_negative_values))} :
          /\ now' = n
          /\ raised' = r.raised
          /\ data' = r.value
    /\ pc' = "updated"
    /\ UNCHANGED <<suffix, last_update_success, cumulative_value,
                   last_processed_date, value, last_state, restored_ok, last_op,
                   pre_fail, pre_restart, consumption_data,
                   filter_negative_values, apivars, refreshvars>>

NextAgg ==
    \/ ProcessData
    \/ ProcessDataFixed

SpecAgg == InitAgg /\ [][NextAgg]_vars

\* ==================================================================
\* One tick of a running integration: the refresh, then the sensor's read
\* ==================================================================

\* The records one tick is given: readings dated at ReadingInstants, with
\* any consumption or none.
TickRecords(sfx) ==
    {WireRecord(RawDate(t, sfx), c, None) :
        t \in ReadingInstants, c \in {None} \cup {Some(x) : x \in Consumptions}}

TickWindows == [sfx \in Suffixes |-> ListsOf(TickRecords(sfx), MaxWindow)]

\* datetime.now() during the tick: February 1, at midnight or at noon.
TickNows == {At(DaysInJanuary + 1, h) : h \in NowHours}

\* The sensor before the tick: nothing counted yet, or 2 litres counted up
\* to the reading of February 1.
TickSensors ==
    {[cumulative_value |-> 0, last_processed_date |-> None, value |-> None],
     [cumulative_value |-> 2, last_processed_date |-> Some(At(DaysInJanuary + 1, 0)),
      value |-> Some(2)]}

\* The integration runs; the refresh before this one fetched an empty
\* list; get_consumption has now returned consumption_data.
InitTick ==
    /\ suffix \in Suffixes
    /\ pc = "fetched"
    /\ consumption_data \in TickWindows[suffix]
    /\ filter_negative_values \in {None, Some(TRUE), Some(FALSE)}
    /\ now = 0
    /\ raised = None
    /\ \E n \in TickNows :
          data = AsyncUpdateDataNow(None, <<>>, None, n, filter_negative_values).data
    /\ last_update_success = TRUE
    /\ \E sn \in TickSensors :
          /\ cumulative_value = sn.cumulative_value
          /\ last_processed_date = sn.last_processed_date
          /\ value = sn.value
    /\ last_state = None
    /\ restored_ok = FALSE
    /\ last_op = "none"
    /\ pre_fail = None
    /\ pre_restart = None
    /\ ApiInit
    /\ NoRefresh

\* _async_update_data once get_consumption has returned.
UpdateData ==
    /\ pc = "fetched"
    /\ \E n \in TickNows :
       \E u \in {AsyncUpdateDataNow(data, consumption_data, None, n,
                                    filter_negative_values)} :
          /\ now' = n
          /\ raised' = u.raised
          /\ data' = u.data
          /\ last_update_success' = IsNone(u.raised)
    /\ pc' = "updated"
    /\ UNCHANGED <<suffix, cumulative_value, last_processed_date, value,
                   last_state, restored_ok, last_op, pre_fail, pre_restart,
                   consumption_data, filter_negative_values, apivars, refreshvars>>

\* The refresh returned and the coordinator notifies the sensor, whose
\* native_value is read.
ReadAfterUpdate ==
    /\ pc = "updated"
    /\ raised = None
    /\ \E r \in {NativeValue(cumulative_value, last_processed_date, data)} :
          /\ cumulative_value' = r.cumulative_value
          /\ last_processed_date' = r.last_processed_date
          /\ value' = r.value
    /\ pc' = "read"
    /\ UNCHANGED <<suffix, data, last_update_success, last_state, restored_ok,
                   last_op, pre_fail, pre_restart, tickvars, apivars, refreshvars>>

NextTick ==
    \/ UpdateData
    \/ ReadAfterUpdate

SpecTick == InitTick /\ [][NextTick]_vars

\* ------------------------------------------ properties of the aggregator
\* The snapshot of the call followed, when it returned one.
Snapshot == Val(data)
Updated == pc = "updated" /\ raised = None /\ ~IsNone(data)
Filtering == filter_negative_values = Some(TRUE)

\* reading.get("consumption", 0) of the i-th fetched record.
ConsumptionAt(i) == Get(consumption_data[i], "consumption", 0)
DateAt(i) == Normalize(consumption_data[i].date)

RECURSIVE SumAt(_)
SumAt(I) ==
    IF I = {} THEN 0
    ELSE LET i == CHOOSE x \in I : TRUE
         IN ConsumptionAt(i) + SumAt(I \ {i})

Negatives == {i \in DOMAIN consumption_data : ConsumptionAt(i) < 0}

\* C11: with filter_negative_values true every snapshot has daily, weekly
\* and monthly totals that are not negative, for every window and clock.
C11_TotalsNonNegative ==
    (Updated /\ Filtering) =>
       /\ Snapshot.daily_total >= 0
       /\ Snapshot.weekly_total >= 0
       /\ Snapshot.monthly_total >= 0

\* C11 witness: a filtered snapshot of a window whose only reading is a
\* correction dated today.
C11_Witness ==
    /\ Updated /\ Filtering
    /\ Len(consumption_data) = 1
    /\ ConsumptionAt(1) < 0
    /\ DateAt(1) >= now - (now % 24)
    /\ Snapshot.daily_total = 0

\* The range starts of the clock value read, in hours of the year:
\* midnight of its date, seven days before that, and midnight of the first
\* day of its month (February 1 is day 32).
Midnight == now - (now % 24)
SevenDaysBefore == Midnight - 7 * 24
FirstOfMonth == IF now < 24 * 32 THEN 24 ELSE 24 * 32

\* The fetched records dated at or after t, without the negative ones when
\* they are filtered out.
Since(t) ==
    {i \in DOMAIN consumption_data :
        /\ DateAt(i) >= t
        /\ Filtering => ConsumptionAt(i) >= 0}

\* C12: with filter_negative_values true no reading with consumption < 0
\* is part of the daily, weekly or monthly sum, and every such reading of
\* the window, of whatever date, is counted once in negative_values_found
\* and added to adjustments_total.
C12_NegativesCounted ==
    (Updated /\ Filtering) =>
       /\ Snapshot.negative_values_found = Cardinality(Negatives)
       /\ Snapshot.adjustments_total = SumAt(Negatives)
       /\ Snapshot.daily_total = SumAt(Since(Midnight) \ Negatives)
       /\ Snapshot.weekly_total = SumAt(Since(SevenDaysBefore) \ Negatives)
       /\ Snapshot.monthly_total = SumAt(Since(FirstOfMonth) \ Negatives)

\* C12 witness: a filtered snapshot of two corrections, one dated before
\* the month and the week began and one within the week; both are counted.
C12_Witness ==
    /\ Updated /\ Filtering
    /\ Snapshot.negative_values_found = 2
    /\ Snapshot.adjustments_total = -2
    /\ Snapshot.weekly_total = 0
    /\ \E i, j \in Negatives :
          /\ DateAt(i) < FirstOfMonth
          /\ DateAt(i) < SevenDaysBefore
          /\ DateAt(j) >= SevenDaysBefore

\* C13: in both coordinators a reading is part of the daily sum iff it is
\* dated at or after midnight of now's date, of the weekly sum iff at or
\* after seven days before that midnight, and of the monthly sum iff at or
\* after midnight of the first of now's month; a reading dated after now is
\* part of all three.  (Negative readings that are filtered out are part
\* of none.)
C13_Ranges ==
    Updated =>
       /\ Snapshot.daily_total = SumAt(Since(Midnight))
       /\ Snapshot.weekly_total = SumAt(Since(SevenDaysBefore))
       /\ Snapshot.monthly_total = SumAt(Since(FirstOfMonth))

\* C13 witness: coordinator.py, at noon, sums a reading dated the next day
\* into all three totals and a reading dated the day before, in the month
\* before, into the weekly total only.
C13_Witness ==
    /\ Updated /\ IsNone(filter_negative_values)
    /\ now > Midnight
    /\ Len(consumption_data) = 2
    /\ DateAt(1) > now
    /\ DateAt(2) < Midnight /\ DateAt(2) < FirstOfMonth
    /\ ConsumptionAt(1) = 2 /\ ConsumptionAt(2) = 2
    /\ Snapshot.daily_total = 2
    /\ Snapshot.weekly_total = 4
    /\ Snapshot.monthly_total = 2

\* C14: for a non-empty window in any order, latest_reading,
\* last_reading_date and cil are those of one reading whose normalized
\* timestamp is the greatest of the window; for an empty window
\* latest_reading is None.
C14_Latest ==
    Updated =>
       IF consumption_data = <<>>
       THEN Snapshot.latest_reading = None
       ELSE \E i \in DOMAIN consumption_data :
               /\ \A j \in DOMAIN consumption_data : DateAt(j) <= DateAt(i)
               /\ "consumption" \in DOMAIN consumption_data[i]
               /\ Snapshot.latest_reading = Some(consumption_data[i].consumption)
               /\ Snapshot.last_reading_date = Some(consumption_data[i].date)
               /\ Snapshot.cil = IF "cil" \in DOMAIN consumption_data[i]
                                 THEN Some(consumption_data[i].cil) ELSE None

\* C14 witness: the most recent reading comes second in the fetched list
\* and is the only one with a cil; the snapshot has its consumption, date
\* and cil.
C14_Witness ==
    /\ Updated
    /\ Len(consumption_data) = 2
    /\ DateAt(2) > DateAt(1)
    /\ "cil" \in DOMAIN consumption_data[2]
    /\ "cil" \notin DOMAIN consumption_data[1]
    /\ ConsumptionAt(1) = -1
    /\ Snapshot.latest_reading = Some(2)
    /\ Snapshot.cil = Some("cil")
    /\ Snapshot.last_reading_date = Some(consumption_data[2].date)

\* The fetched list holds a record whose date cannot be parsed.
HasUnparsable ==
    \E i \in DOMAIN consumption_data : ~IsIsoFormat(DateAt(i))

RECURSIVE Parsables(_)
Parsables(w) ==
    IF w = <<>> THEN <<>>
    ELSE IF IsIsoFormat(Normalize(Head(w).date))
         THEN <<Head(w)>> \o Parsables(Tail(w))
         ELSE Parsables(Tail(w))

\* What the coordinator followed gives for the list w at the clock value
\* read.
ProcessAgain(w) ==
    IF IsNone(filter_negative_values)
    THEN ProcessConsumptionDataNow(w, now)
    ELSE ProcessConsumptionDataFixed(w, now, Val(filter_negative_values))

\* C16 (as claimed): for a window that holds records with an unparsable
\* date the call raises nothing, and its totals are those of the window
\* without these records.
C16_Claim ==
    (pc = "updated" /\ HasUnparsable) =>
       /\ raised = None
       /\ ~IsNone(data)
       /\ LET clean == Val(ProcessAgain(Parsables(consumption_data)).value)
          IN /\ Snapshot.daily_total = clean.daily_total
             /\ Snapshot.weekly_total = clean.weekly_total
             /\ Snapshot.monthly_total = clean.monthly_total

\* ------------------------------------------------- properties of a tick
\* C15: an empty window is no error: the refresh raises nothing, its
\* snapshot has daily, weekly and monthly totals 0, latest_reading None and
\* (in coordinator_fixed.py) negative count and adjustments 0, and neither
\* the refresh nor the read that follows changes cumulative_value or
\* last_processed_date.
C15_EmptyWindow ==
    /\ []((pc \in {"updated", "read"} /\ consumption_data = <<>>) =>
            /\ raised = None
            /\ last_update_success
            /\ ~IsNone(data)
            /\ Snapshot.daily_total = 0
            /\ Snapshot.weekly_total = 0
            /\ Snapshot.monthly_total = 0
            /\ Snapshot.latest_reading = None
            /\ Snapshot.all_readings = <<>>
            /\ ~IsNone(filter_negative_values) =>
                  /\ Snapshot.negative_values_found = 0
                  /\ Snapshot.adjustments_total = 0)
    /\ [][consumption_data = <<>> => sensor' = sensor]_vars

\* C15 witness: the sensor has been read after a refresh that fetched an
\* empty list, and still holds the 2 litres and the date it had.
C15_Witness ==
    /\ pc = "read"
    /\ consumption_data = <<>>
    /\ cumulative_value = 2
    /\ ~IsNone(last_processed_date)
    /\ value = Some(2)

\* The fetched list holds a record with no "consumption" key.
MissingConsumption ==
    \E i \in DOMAIN consumption_data : "consumption" \notin DOMAIN consumption_data[i]

\* The list w with "consumption": 0 written into the records that lack it.
WithZeros(w) ==
    [i \in DOMAIN w |->
        IF "consumption" \in DOMAIN w[i] THEN w[i]
        ELSE [date |-> w[i].date, consumption |-> 0]]

\* C17 (as claimed): a record with no consumption key counts as one with
\* consumption 0, wherever it stands in the window: the refresh raises
\* nothing, its snapshot has the totals and latest_reading of the window
\* with 0 written in, and the sensor's read gives what it gives on that
\* window.
C17_Claim ==
    /\ []((pc \in {"updated", "read"} /\ MissingConsumption) =>
            /\ raised = None
            /\ LET z == Val(ProcessAgain(WithZeros(consumption_data)).value)
               IN /\ Snapshot.latest_reading = z.latest_reading
                  /\ Snapshot.daily_total = z.daily_total
                  /\ Snapshot.weekly_total = z.weekly_total
                  /\ Snapshot.monthly_total = z.monthly_total)
    /\ [][(pc = "updated" /\ pc' = "read" /\ MissingConsumption) =>
             LET z == NativeValue(cumulative_value, last_processed_date,
                                  ProcessAgain(WithZeros(consumption_data)).value)
             IN /\ cumulative_value' = z.cumulative_value
                /\ last_processed_date' = z.last_processed_date]_vars

\* ==================================================================
\* Properties of the cumulative sensor
\* ==================================================================

\* A step in which native_value may have been read or a refresh failed:
\* the first write after the entity is added, a tick, a later read.
TickStep == pc \in {"added", "running"} /\ pc' = "running"
\* A step in which native_value was read.
ReadStep == TickStep /\ last_op' \in {"tick", "read"}

AllReadings(d) == IF IsNone(d) THEN <<>> ELSE Val(d).all_readings

\* The readings of rs that are newer than lpd (all of them when it is unset).
NewerThan(rs, lpd) ==
    {i \in DOMAIN rs : ~Truthy(lpd) \/ Normalize(rs[i].date) > Val(lpd)}

RECURSIVE SumOf(_, _)
SumOf(rs, I) ==
    IF I = {} THEN 0
    ELSE LET i == CHOOSE x \in I : TRUE
         IN rs[i].consumption + SumOf(rs, I \ {i})

MaxDate(rs, I) ==
    CHOOSE t \in {Normalize(rs[i].date) : i \in I} :
        \A i \in I : Normalize(rs[i].date) <= t

\* a <= b on Optional dates, None before every string.
DateLE(a, b) == IsNone(a) \/ (~IsNone(b) /\ Val(a) <= Val(b))

\* C1: across ticks of one run (successful, failed, with any window),
\* cumulative_value after the tick is never less than before it.
C1_Monotonic ==
    [][TickStep => cumulative_value' >= cumulative_value]_vars

\* C1 witness: a tick has run on a window that holds a correction newer
\* than last_processed_date, and the total was kept.
C1_Witness ==
    /\ pc = "running"
    /\ last_op = "tick"
    /\ cumulative_value > 0
    /\ \E i \in NewerThan(AllReadings(data), last_processed_date) :
          AllReadings(data)[i].consumption < 0

\* C2: reading native_value a second time on the same coordinator data
\* changes neither cumulative_value nor last_processed_date.
C2_Idempotent ==
    [][(pc = "running" /\ ReadStep /\ data' = data) => sensor' = sensor]_vars

\* C2 witness: a second read has happened on a window that added something.
C2_Witness ==
    /\ pc = "running"
    /\ last_op = "read"
    /\ last_update_success
    /\ cumulative_value > 0
    /\ ~IsNone(last_processed_date)
    /\ \E i \in DOMAIN AllReadings(data) :
          /\ AllReadings(data)[i].consumption > 0
          /\ Normalize(AllReadings(data)[i].date) = Val(last_processed_date)

\* C3: when the signed sum of the readings newer than the
\* last_processed_date held before the read is positive, cumulative_value
\* grows by exactly that sum and last_processed_date becomes the greatest
\* normalized timestamp among those readings.
C3_Increment ==
    [][ReadStep =>
         LET rs == AllReadings(data')
             I == NewerThan(rs, last_processed_date)
             inc == SumOf(rs, I)
         IN inc > 0 =>
               /\ cumulative_value' = cumulative_value + inc
               /\ last_processed_date' = Some(MaxDate(rs, I))]_vars

\* C3 witness: two readings of 2 litres from a fresh sensor give 4 litres
\* and the newer reading's timestamp.
C3_Witness ==
    /\ pc = "running"
    /\ ~restored_ok
    /\ Len(AllReadings(data)) = 2
    /\ \A i \in DOMAIN AllReadings(data) : AllReadings(data)[i].consumption = 2
    /\ cumulative_value = 4
    /\ last_processed_date = Some(Normalize(AllReadings(data)[1].date))
    /\ Normalize(AllReadings(data)[1].date) > Normalize(AllReadings(data)[2].date)

\* C4: across ticks of one run last_processed_date never moves to an
\* earlier timestamp.
C4_DateMonotonic ==
    [][TickStep => DateLE(last_processed_date, last_processed_date')]_vars

\* C4 witness: a tick has run on a window whose only readings are older
\* than last_processed_date and have consumption.
C4_Witness ==
    /\ pc = "running"
    /\ last_op = "tick"
    /\ Truthy(last_processed_date)
    /\ AllReadings(data) # <<>>
    /\ \A i \in DOMAIN AllReadings(data) :
          /\ AllReadings(data)[i].consumption > 0
          /\ Normalize(AllReadings(data)[i].date) < Val(last_processed_date)

\* The stored state of the previous run spells no number.
Unparsable == ~IsNone(last_state) /\ ~Val(last_state).state.num
Parsable == ~IsNone(last_state) /\ Val(last_state).state.num
\* The stored attributes hold a last_processed_date that is not None.
StoredDate ==
    /\ ~IsNone(last_state)
    /\ ~IsNone(Val(last_state).attributes)
    /\ ~IsNone(Val(Val(last_state).attributes))

\* C5: after a restore from a state that cannot be parsed as a number,
\* cumulative_value is 0 and last_processed_date is unset; a date is
\* restored only together with a parsed value.
C5_RestoreFailure ==
    pc = "added" =>
       /\ Unparsable => (cumulative_value = 0 /\ IsNone(last_processed_date))
       /\ ~IsNone(last_processed_date) => Parsable

\* C5 witness: a restore from "unknown" with a stored timestamp.
C5_Witness ==
    /\ pc = "added"
    /\ Unparsable
    /\ StoredDate
    /\ Val(Val(Val(last_state).attributes)) \in Times

\* C6 (as claimed): after a restore from a parsable value V whose stored
\* timestamp is absent or is no reading timestamp, cumulative_value is V
\* and last_processed_date is unset.
C6_Claim ==
    (pc = "added" /\ Parsable
       /\ (~StoredDate \/ Val(Val(Val(last_state).attributes)) \notin Times))
    => /\ cumulative_value = Val(last_state).state.val
       /\ IsNone(last_processed_date)

\* C7 (as claimed): storing the displayed value and the
\* last_processed_date attribute and restoring them gives back the fields
\* held before the restart, and a first read after the restart on the data
\* of the last tick before it adds nothing.
C7_Claim ==
    [][/\ (pc' = "added" /\ ~IsNone(pre_restart')) =>
             /\ cumulative_value' = Val(pre_restart').cumulative_value
             /\ last_processed_date' = Val(pre_restart').last_processed_date
       /\ (pc = "added" /\ pc' = "running" /\ ~IsNone(pre_restart)
             /\ Val(pre_restart).same) =>
             cumulative_value' = Val(pre_restart).cumulative_value]_vars

\* C8: while the last refresh has failed, cumulative_value and
\* last_processed_date are what they were before the failed tick, also
\* after native_value has been read again.
C8_FailedTickFrame ==
    ~last_update_success => (~IsNone(pre_fail) /\ sensor = Val(pre_fail))

\* C8 witness: native_value has been read after a failed tick on a window
\* that had added to the total.
C8_Witness ==
    /\ ~last_update_success
    /\ last_op = "read"
    /\ cumulative_value > 0
    /\ \E i \in DOMAIN AllReadings(data) : AllReadings(data)[i].consumption > 0

\* C9 (as claimed): the value displayed is cumulative_value when it is
\* positive or a restore succeeded, and None otherwise.
C9_Claim ==
    pc = "running" =>
       value = IF cumulative_value > 0 \/ restored_ok
               THEN Some(cumulative_value) ELSE None

\* C10 (as claimed): cumulative_value is never negative.
C10_Claim == cumulative_value >= 0

\* ==================================================================
\* The accumulator alone, on readings of any shape
\* ==================================================================

\* A reading with an Optional date and an Optional consumption, None for a
\* key the reading lacks.
AnyReading(d, c) ==
    IF IsNone(d)
    THEN IF IsNone(c) THEN [cil |-> "cil"] ELSE [cil |-> "cil", consumption |-> Val(c)]
    ELSE IF IsNone(c) THEN [date |-> Val(d)]
         ELSE [date |-> Val(d), consumption |-> Val(c)]

\* The readings native_value can find in all_readings: dated, with an
\* empty date or with none; with a consumption, with one that is no
\* number or with none.
AccReadings(sfx) ==
    {AnyReading(d, c) :
        d \in {None, Some(BareDate(EmptyStr))} \cup {Some(RawDate(t, sfx)) : t \in Times},
        c \in {None, Some(NonNumeric)} \cup {Some(x) : x \in Consumptions}}

AccWindows == [sfx \in Suffixes |-> ListsOf(AccReadings(sfx), MaxWindow)]

\* The sensor before the read: nothing counted yet, or 2 litres counted up
\* to some reading.
AccSensors ==
    {[cumulative_value |-> 0, last_processed_date |-> None, value |-> None]}
      \cup {[cumulative_value |-> 2, last_processed_date |-> Some(t), value |-> Some(2)] :
               t \in Times}

\* The coordinator holds data whose all_readings is any such list (the
\* only key native_value reads), and notifies the sensor.
InitAcc ==
    /\ suffix \in Suffixes
    /\ pc = "updated"
    /\ \E w \in AccWindows[suffix] : data = Some([all_readings |-> w])
    /\ last_update_success = TRUE
    /\ \E sn \in AccSensors :
          /\ cumulative_value = sn.cumulative_value
          /\ last_processed_date = sn.last_processed_date
          /\ value = sn.value
    /\ last_state = None
    /\ restored_ok = FALSE
    /\ last_op = "none"
    /\ pre_fail = None
    /\ pre_restart = None
    /\ NoTick
    /\ ApiInit
    /\ NoRefresh

NextAcc == ReadAfterUpdate

SpecAcc == InitAcc /\ [][NextAcc]_vars

\* A reading with a date that is not empty and a consumption that is a
\* number.
GoodReading(r) ==
    /\ "date" \in DOMAIN r
    /\ ~(r.date.ts = 0 /\ r.date.sfx = "")
    /\ "consumption" \in DOMAIN r
    /\ r.consumption # NonNumeric

\* C18: on readings with a missing or empty date or a missing or
\* non-numeric consumption the read completes, such a reading adds nothing
\* to the increment, and the other readings of the list are counted: the
\* increment is the sum of the good readings newer than the
\* last_processed_date held before the read.
C18_BadReadingsSkipped ==
    [][(pc = "updated" /\ pc' = "read") =>
         LET rs == AllReadings(data)
             I == {i \in DOMAIN rs :
                      /\ GoodReading(rs[i])
                      /\ ~Truthy(last_processed_date)
                           \/ rs[i].date.ts > Val(last_processed_date)}
             inc == SumOf(rs, I)
         IN /\ cumulative_value' =
                  IF inc > 0 THEN cumulative_value + inc ELSE cumulative_value
            /\ value' = IF cumulative_value' > 0 THEN Some(cumulative_value') ELSE None]_vars

\* C18 witness: the read has counted a new reading of 2 litres that comes
\* after a reading whose consumption is no number, on top of the 2 litres
\* counted before.
C18_Witness ==
    /\ pc = "read"
    /\ \E i, j \in DOMAIN AllReadings(data) :
          /\ i < j
          /\ "date" \in DOMAIN AllReadings(data)[i]
          /\ "consumption" \in DOMAIN AllReadings(data)[i]
          /\ AllReadings(data)[i].consumption = NonNumeric
          /\ GoodReading(AllReadings(data)[j])
          /\ AllReadings(data)[j].consumption = 2
    /\ cumulative_value = 4
    /\ last_processed_date = Some(MaxT)

\* ==================================================================
\* The API client: calls of get_user_subscriptions, get_meters and
\* get_consumption against a server that answers as it likes
\* ==================================================================

\* The history counters requests and reauths stop counting here.
MaxRequests == 3

ApiMethods == {"get_user_subscriptions", "get_meters", "get_consumption"}

\* The values of the X-Auth-Token header the server can send; "" is a
\* header that is present and empty.
Tokens == {"tokenA", "tokenB"}
EmptyToken == ""

\* `self._auth_token` and `auth_token` under `not`: None and "" are false.
HasToken(t) == ~IsNone(t) /\ Val(t) # EmptyToken

\* What the login endpoint can do: fail at the transport (aiohttp.ClientError),
\* or answer with a status and with or without the X-Auth-Token header.
LoginResponses ==
    [client_error : BOOLEAN,
     header : {None, Some(EmptyToken)} \cup {Some(t) : t \in Tokens},
     status : {200, 204, 401}]

\* What a data endpoint can do: fail at the transport, or answer with a
\* status and a JSON body that is a list or is not.
Bodies == {"[]", "[reading]", "{}"}
IsList(body) == body # "{}"
DataResponses ==
    [client_error : BOOLEAN, status : {200, 401, 500}, body : Bodies]

\* login() caching the token before it tests the status.
Login_CacheFirst(response, token) ==
    IF response.client_error
    THEN [raised |-> Some("ConnectionError"), auth_token |-> token]
    ELSE IF ~HasToken(response.header)
    THEN [raised |-> Some("LoginError"), auth_token |-> token]
    ELSE IF response.status # 200
    THEN [raised |-> Some("LoginError"), auth_token |-> response.header]
    ELSE [raised |-> None, auth_token |-> response.header]

\* login() keeping a token it already holds.
Login_KeepCached(response, token) ==
    IF response.client_error
    THEN [raised |-> Some("ConnectionError"), auth_token |-> token]
    ELSE IF ~HasToken(response.header)
    THEN [raised |-> Some("LoginError"), auth_token |-> token]
    ELSE IF response.status # 200
    THEN [raised |-> Some("LoginError"), auth_token |-> token]
    ELSE [raised |-> None,
          auth_token |-> IF HasToken(token) THEN token ELSE response.header]

\* login(): the outcome and the token cached afterwards.
Login(response, token) ==
    IF response.client_error
    THEN [raised |-> Some("ConnectionError"), auth_token |-> token]
    ELSE IF ~HasToken(response.header)
    THEN [raised |-> Some("LoginError"), auth_token |-> token]
    ELSE IF response.status # 200
    THEN [raised |-> Some("LoginError"), auth_token |-> token]
    ELSE [raised |-> None, auth_token |-> response.header]

\* The methods without their isinstance(data, list) test.
Answer_NoShapeTest(method, response) ==
    IF response.client_error
    THEN IF method = "get_user_subscriptions" THEN Returned("[]")
         ELSE Raised("ConnectionError")
    ELSE IF response.status # 200
    THEN IF method = "get_user_subscriptions" THEN Returned("[]")
         ELSE Raised("InvalidResponseError")
    ELSE Returned(response.body)

\* What a method does with a response whose status is not 401: the part
\* of the three methods after the 401 test, and their except clause.
Answer(method, response) ==
    IF response.client_error
    THEN IF method = "get_user_subscriptions" THEN Returned("[]")
         ELSE Raised("ConnectionError")
    ELSE IF response.status # 200
    THEN IF method = "get_user_subscriptions" THEN Returned("[]")
         ELSE Raised("InvalidResponseError")
    ELSE IF IsList(response.body) THEN Returned(response.body)
    ELSE IF method = "get_consumption" THEN Raised("InvalidResponseError")
    ELSE Returned("[]")

Count(n) == IF n < MaxRequests THEN n + 1 ELSE MaxRequests

\* A request to the login endpoint or to a data endpoint, sent by a client
\* whose cached token was `token`, and the response to it.
Exchange(endpoint, token, response) ==
    Some([endpoint |-> endpoint, token |-> token, response |-> response])

\* A client constructed or left by earlier calls, at rest.
InitApi ==
    /\ suffix \in Suffixes
    /\ pc = "setup"
    /\ SensorIdle
    /\ NoTick
    /\ ApiInit
    /\ NoRefresh

\* A caller awaits one of the three methods.
ApiCall ==
    /\ api_pc = "idle"
    /\ \E m \in ApiMethods : api_method' = m
    /\ api_pc' = "entry"
    /\ requests' = 0
    /\ reauths' = 0
    /\ api_result' = None
    /\ exchange' = None
    /\ UNCHANGED <<sensorvars, tickvars, refreshvars, auth_token>>

\* The head of a method, `if not self._auth_token: await self.login()`; an
\* exception of login leaves the method.
Enter ==
    /\ api_pc = "entry"
    /\ IF HasToken(auth_token)
       THEN /\ api_pc' = "request"
            /\ UNCHANGED <<auth_token, api_result, exchange>>
       ELSE \E response \in LoginResponses :
            \E l \in {Login(response, auth_token)} :
               /\ auth_token' = l.auth_token
               /\ exchange' = Exchange("login", auth_token, response)
               /\ IF IsNone(l.raised)
                  THEN /\ api_pc' = "request"
                       /\ UNCHANGED api_result
                  ELSE /\ api_pc' = "idle"
                       /\ api_result' = Some(Raised(Val(l.raised)))
    /\ UNCHANGED <<sensorvars, tickvars, refreshvars, api_method, requests, reauths>>

\* self._session.get(...) and the handling of its response, up to the
\* return, the raise or the 401 branch.
SendRequest ==
    /\ api_pc = "request"
    /\ requests' = Count(requests)
    /\ \E response \in DataResponses :
          /\ exchange' = Exchange("data", auth_token, response)
          /\ IF ~response.client_error /\ response.status = 401
             THEN /\ api_pc' = "reauth"
                  /\ UNCHANGED api_result
             ELSE /\ api_pc' = "idle"
                  /\ api_result' = Some(Answer(api_method, response))
    /\ UNCHANGED <<sensorvars, tickvars, refreshvars, api_method, auth_token, reauths>>

\* The 401 branch: `await self.login()`, then `return await self.<method>(...)`,
\* the method calling itself; an exception of login leaves the method.
Reauth ==
    /\ api_pc = "reauth"
    /\ reauths' = Count(reauths)
    /\ \E response \in LoginResponses :
       \E l \in {Login(response, auth_token)} :
          /\ auth_token' = l.auth_token
          /\ exchange' = Exchange("login", auth_token, response)
          /\ IF IsNone(l.raised)
             THEN /\ api_pc' = "entry"
                  /\ UNCHANGED api_result
             ELSE /\ api_pc' = "idle"
                  /\ api_result' = Some(Raised(Val(l.raised)))
    /\ UNCHANGED <<sensorvars, tickvars, refreshvars, api_method, requests>>

NextApi ==
    \/ ApiCall
    \/ Enter
    \/ SendRequest
    \/ Reauth

SpecApi == InitApi /\ [][NextApi]_vars

\* The event loop resumes a coroutine whose awaited response has come, and
\* the server answers every request.
SpecApiFair == SpecApi /\ WF_vars(NextApi)

\* C19: in a call of any of the three methods at most one login follows
\* a 401 and at most two requests go to the data endpoint.
C19_Claim == requests <= 2 /\ reauths <= 1

BodyLists(body, sfx) ==
    IF body = "[]" THEN {<<>>}
    ELSE {w \in TickWindows[sfx] : Len(w) = 1}

\* The integration runs, as in InitTick, and its client has no token or
\* holds one from an earlier call.
InitFetch ==
    /\ suffix \in Suffixes
    /\ pc = "running"
    /\ consumption_data = <<>>
    /\ filter_negative_values \in {None, Some(TRUE), Some(FALSE)}
    /\ now = 0
    /\ raised = None
    /\ \E n \in TickNows :
          data = AsyncUpdateDataNow(None, <<>>, None, n, filter_negative_values).data
    /\ last_update_success = TRUE
    /\ \E sn \in TickSensors :
          /\ cumulative_value = sn.cumulative_value
          /\ last_processed_date = sn.last_processed_date
          /\ value = sn.value
    /\ last_state = None
    /\ restored_ok = FALSE
    /\ last_op = "none"
    /\ pre_fail = None
    /\ pre_restart = None
    /\ api_pc = "idle"
    /\ api_method = "none"
    /\ auth_token \in {None, Some("tokenA")}
    /\ requests = 0
    /\ reauths = 0
    /\ api_result = None
    /\ exchange = None
    /\ NoRefresh

\* _async_update_data up to its await: the call of self.api.get_consumption.
FetchCall ==
    /\ pc = "running"
    /\ api_pc = "idle"
    /\ pc' = "fetching"
    /\ api_method' = "get_consumption"
    /\ api_pc' = "entry"
    /\ requests' = 0
    /\ reauths' = 0
    /\ api_result' = None
    /\ exchange' = None
    /\ UNCHANGED <<suffix, data, last_update_success, cumulative_value,
                   last_processed_date, value, last_state, restored_ok, last_op,
                   pre_fail, pre_restart, tickvars, auth_token, refreshvars>>

\* _async_update_data from the await on: get_consumption has returned a
\* list or raised.
FetchDone ==
    /\ pc = "fetching"
    /\ api_pc = "idle"
    /\ \E r \in {Val(api_result)} :
       \E fetched \in IF IsNone(r.raised) THEN BodyLists(Val(r.value), suffix) ELSE {<<>>} :
       \E n \in TickNows :
       \E u \in {AsyncUpdateDataNow(data, fetched, r.raised, n, filter_negative_values)} :
          /\ consumption_data' = fetched
          /\ now' = n
          /\ raised' = u.raised
          /\ data' = u.data
          /\ last_update_success' = IsNone(u.raised)
    /\ pc' = "updated"
    /\ UNCHANGED <<suffix, cumulative_value, last_processed_date, value,
                   last_state, restored_ok, last_op, pre_fail, pre_restart,
                   filter_negative_values, apivars, refreshvars>>

NextFetch ==
    \/ FetchCall
    \/ Enter
    \/ SendRequest
    \/ Reauth
    \/ FetchDone
    \/ ReadAfterUpdate

SpecFetch == InitFetch /\ [][NextFetch]_vars

\* The step in which _async_update_data ends.
UpdateEnds == pc = "fetching" /\ pc' = "updated"

\* C21: when get_consumption raised LoginError, ConnectionError or
\* InvalidResponseError, _async_update_data raises UpdateFailed, the
\* coordinator keeps the data it had and the refresh counts as failed.
C21_FetchFailureSurfaced ==
    [][(UpdateEnds /\ ~IsNone(Val(api_result).raised)) =>
         /\ Val(Val(api_result).raised) \in ApiErrors
         /\ raised' = Some("UpdateFailed")
         /\ data' = data
         /\ last_update_success' = FALSE]_vars

\* C21 witness: the login after a 401 failed, get_consumption raised
\* LoginError and the refresh ended with UpdateFailed.
C21_Witness ==
    /\ pc = "updated"
    /\ reauths = 1
    /\ Val(api_result).raised = Some("LoginError")
    /\ raised = Some("UpdateFailed")
    /\ ~last_update_success

\* ----------------------------------------- properties of the API client
\* A call has ended, with a return or a raise.
CallEnded == api_pc = "idle" /\ ~IsNone(api_result)
Outcome == Val(api_result)
LastExchange == Val(exchange)

\* The last response is what the call ended on, and it is no 200 with a
\* list for a body.
FailedExchange ==
    \/ LastExchange.endpoint = "login"
    \/ LastExchange.response.client_error
    \/ LastExchange.response.status # 200
    \/ ~IsList(LastExchange.response.body)

\* C22: a call of get_user_subscriptions never ends with a raise, and on
\* a failed login, a connection error, a non-200 status or a body that is
\* no list it returns the empty list.
C22_Claim ==
    (CallEnded /\ api_method = "get_user_subscriptions") =>
        /\ IsNone(Outcome.raised)
        /\ FailedExchange => Outcome.value = Some("[]")

LoginStep ==
    /\ api_pc = "reauth" \/ (api_pc = "entry" /\ ~HasToken(auth_token))
    /\ api_pc' # api_pc

\* login() returned (the method goes on) or raised (the method ends).
LoginReturned == api_pc' # "idle"

SuccessStatus(status) == status \in 200..299

\* C24: login returns, and changes the cached token, only on a response
\* that carries a token header and a success status, caching that token;
\* on a response without the header, with a non-success status or on a
\* transport error it raises LoginError or ConnectionError and the cached
\* token is as before.
C24_LoginCachesOnSuccess ==
    [][LoginStep =>
         LET response == Val(exchange').response
             good == /\ ~response.client_error
                     /\ HasToken(response.header)
                     /\ SuccessStatus(response.status)
         IN /\ LoginReturned => (good /\ auth_token' = response.header)
            /\ auth_token' # auth_token => (good /\ LoginReturned)
            /\ (\/ response.client_error
                \/ IsNone(response.header)
                \/ ~SuccessStatus(response.status)) =>
                   /\ ~LoginReturned
                   /\ Val(api_result').raised \in {Some("LoginError"), Some("ConnectionError")}
                   /\ auth_token' = auth_token]_vars

\* C24 witness: a client holding a token has logged in again after a 401;
\* the response carried another token with status 401, login raised
\* LoginError and the client holds the token it had.
C24_Witness ==
    /\ CallEnded
    /\ reauths = 1
    /\ LastExchange.endpoint = "login"
    /\ LastExchange.response.status = 401
    /\ HasToken(LastExchange.response.header)
    /\ HasToken(auth_token)
    /\ LastExchange.response.header # auth_token
    /\ LastExchange.token = auth_token
    /\ Outcome = Raised("LoginError")

\* ==================================================================
\* One tick on a window about as long as the number of readings kept
\* ==================================================================

\* The hour before the first reading of a long window: January 27, 00:00.
FirstHour == At(DaysInJanuary - 4, 0)

\* n hourly readings of c litres each, newest first or oldest first.
LongWindow(sfx, n, newest_first, c) ==
    [i \in 1..n |->
        WireRecord(RawDate(FirstHour + (IF newest_first THEN n + 1 - i ELSE i), sfx),
                   Some(c), None)]

LongWindows ==
    [sfx \in Suffixes |->
        {LongWindow(sfx, n, nf, c) :
            n \in (KeepReadings - 1)..(KeepReadings + Extra),
            nf \in BOOLEAN, c \in {0, 2}}]

\* The sensor before the tick: nothing counted yet, or 2 litres counted up
\* to the first or to the fiftieth hourly reading.
LongSensors ==
    {[cumulative_value |-> 0, last_processed_date |-> None, value |-> None]}
      \cup {[cumulative_value |-> 2, last_processed_date |-> Some(FirstHour + k),
             value |-> Some(2)] : k \in {1, 50}}

\* As InitTick, with a long window fetched.
InitLong ==
    /\ suffix \in Suffixes
    /\ pc = "fetched"
    /\ consumption_data \in LongWindows[suffix]
    /\ filter_negative_values \in {None, Some(TRUE), Some(FALSE)}
    /\ now = 0
    /\ raised = None
    /\ \E n \in TickNows :
          data = AsyncUpdateDataNow(None, <<>>, None, n, filter_negative_values).data
    /\ last_update_success = TRUE
    /\ \E sn \in LongSensors :
          /\ cumulative_value = sn.cumulative_value
          /\ last_processed_date = sn.last_processed_date
          /\ value = sn.value
    /\ last_state = None
    /\ restored_ok = FALSE
    /\ last_op = "none"
    /\ pre_fail = None
    /\ pre_restart = None
    /\ ApiInit
    /\ NoRefresh

SpecLong == InitLong /\ [][NextTick]_vars

\* The sum of a list of numbers.
RECURSIVE SumSeq(_)
SumSeq(ns) ==
    IF ns = <<>> THEN 0
    ELSE IF Len(ns) = 1 THEN ns[1]
    ELSE LET half == Len(ns) \div 2
         IN SumSeq(SubSeq(ns, 1, half)) + SumSeq(SubSeq(ns, half + 1, Len(ns)))

\* The consumption of the readings of w that are newer than lpd.
NewConsumption(w, lpd) ==
    SumSeq([i \in 1..Len(w) |->
              IF i \in NewerThan(w, lpd) THEN Get(w[i], "consumption", 0) ELSE 0])

\* The step in which the sensor is read after a refresh that returned.
ReadStepAfterUpdate == pc = "updated" /\ pc' = "read"

\* C25: the read after a successful refresh counts every reading of the
\* fetched window that is newer than last_processed_date: the increment is
\* the sum over all such readings of consumption_data.
C25_Claim ==
    [][ReadStepAfterUpdate =>
         LET inc == NewConsumption(consumption_data, last_processed_date)
         IN cumulative_value' =
               IF inc > 0 THEN cumulative_value + inc ELSE cumulative_value]_vars

\* ------------------------------------- ticks whose increment is zero
\* C26: when the readings of the window newer than last_processed_date
\* (all of them when it is unset) sum to 0, the read moves
\* last_processed_date to the newest of their dates and leaves
\* cumulative_value as it was.
C26_Claim ==
    [][ReadStepAfterUpdate =>
         LET rs == AllReadings(data)
             I == NewerThan(rs, last_processed_date)
         IN (I # {} /\ NewConsumption(rs, last_processed_date) = 0) =>
               /\ last_processed_date' = Some(MaxDate(rs, I))
               /\ cumulative_value' = cumulative_value]_vars

\* The window read held readings, all dated and all of consumption 0.
AllZeroWindow ==
    /\ AllReadings(data) # <<>>
    /\ \A i \in DOMAIN AllReadings(data) :
          /\ Has(AllReadings(data)[i], "consumption")
          /\ AllReadings(data)[i].consumption = 0

\* C27: after the read the sensor shows None only if it has processed no
\* reading (last_processed_date unset and cumulative_value 0), and after a
\* tick on dated readings that all have consumption 0 it shows its
\* cumulative_value, 0 for a sensor that had counted nothing.
C27_Claim ==
    pc = "read" =>
        /\ IsNone(value) => (IsNone(last_processed_date) /\ cumulative_value = 0)
        /\ AllZeroWindow => value = Some(cumulative_value)

\* ==================================================================
\* Several refreshes of one meter in flight, and reads at any time
\* ==================================================================

\* The readings the server holds at most: hourly readings, of 2 litres at
\* the odd hours and of none at the even ones.
Served(sfx) ==
    [i \in 1..MaxServed |->
        WireRecord(RawDate(FirstHour + i, sfx), Some(IF i % 2 = 1 THEN 2 ELSE 0), None)]

\* What a fetch can return: the first k readings the server holds, oldest
\* first.  A fetch that completes after another can return fewer.
ServedWindows ==
    [sfx \in Suffixes |-> {SubSeq(Served(sfx), 1, k) : k \in 0..MaxServed}]

\* The sensor's two fields.
Fields(cum, lpd) == [cumulative_value |-> cum, last_processed_date |-> lpd]

\* The integration runs on a fresh sensor; no refresh is in flight.
InitConc ==
    /\ suffix \in Suffixes
    /\ pc = "running"
    /\ consumption_data = <<>>
    /\ filter_negative_values \in {None, Some(TRUE), Some(FALSE)}
    /\ now = 0
    /\ raised = None
    /\ \E n \in TickNows :
          data = AsyncUpdateDataNow(None, <<>>, None, n, filter_negative_values).data
    /\ last_update_success = TRUE
    /\ cumulative_value = 0
    /\ last_processed_date = None
    /\ value = None
    /\ last_state = None
    /\ restored_ok = FALSE
    /\ last_op = "none"
    /\ pre_fail = None
    /\ pre_restart = None
    /\ ApiInit
    /\ inflight = 0
    /\ sequential = Some(Fields(0, None))
    /\ seen = {}
    /\ late = {}

\* A refresh begins and is suspended at `await self.api.get_consumption(...)`.
RefreshStart ==
    /\ pc = "running"
    /\ inflight < MaxInflight
    /\ inflight' = inflight + 1
    /\ UNCHANGED <<sensorvars, tickvars, apivars, sequential, seen, late>>

\* The network call of a refresh in flight returns a list: the rest of
\* _async_update_data runs, the coordinator takes the snapshot and notifies
\* the sensor, whose native_value is read; none of it awaits.
RefreshDone ==
    /\ pc = "running"
    /\ inflight > 0
    /\ inflight' = inflight - 1
    /\ \E fetched \in ServedWindows[suffix] :
       \E n \in TickNows :
       \E u \in {AsyncUpdateDataNow(data, fetched, None, n, filter_negative_values)} :
       \E r \in {NativeValue(cumulative_value, last_processed_date, u.data)} :
       \E q \in {NativeValue(Val(sequential).cumulative_value,
                             Val(sequential).last_processed_date, u.data)} :
          /\ consumption_data' = fetched
          /\ now' = n
          /\ raised' = u.raised
          /\ data' = u.data
          /\ last_update_success' = IsNone(u.raised)
          /\ cumulative_value' = r.cumulative_value
          /\ last_processed_date' = r.last_processed_date
          /\ value' = r.value
          /\ sequential' = Some(Fields(q.cumulative_value, q.last_processed_date))
    /\ last_op' = "tick"
    /\ UNCHANGED <<suffix, pc, last_state, restored_ok, pre_fail, pre_restart,
                   filter_negative_values, apivars, seen, late>>

\* The network call of a refresh in flight raises an API error: UpdateFailed,
\* the coordinator keeps its data.
RefreshFailed ==
    /\ pc = "running"
    /\ inflight > 0
    /\ inflight' = inflight - 1
    /\ \E e \in ApiErrors :
       \E u \in {AsyncUpdateDataNow(data, <<>>, Some(e), now, filter_negative_values)} :
          /\ raised' = u.raised
          /\ data' = u.data
          /\ last_update_success' = IsNone(u.raised)
    /\ last_op' = "fail"
    /\ UNCHANGED <<suffix, pc, cumulative_value, last_processed_date, value,
                   last_state, restored_ok, pre_fail, pre_restart,
                   consumption_data, now, filter_negative_values, apivars,
                   sequential, seen, late>>

\* The host reads native_value, whatever is in flight.
ReadAnyTime ==
    /\ pc = "running"
    /\ \E r \in {NativeValue(cumulative_value, last_processed_date, data)} :
          /\ cumulative_value' = r.cumulative_value
          /\ last_processed_date' = r.last_processed_date
          /\ value' = r.value
    /\ last_op' = "read"
    /\ UNCHANGED <<suffix, pc, data, last_update_success, last_state,
                   restored_ok, pre_fail, pre_restart, tickvars, apivars,
                   refreshvars>>

NextConc ==
    \/ RefreshStart
    \/ RefreshDone
    \/ RefreshFailed
    \/ ReadAnyTime

SpecConc == InitConc /\ [][NextConc]_vars

\* C28: whatever refreshes are in flight and whenever the sensor is read,
\* cumulative_value and last_processed_date are those of the completed
\* fetches processed one after the other, and cumulative_value never grows
\* in a step that does not also advance last_processed_date.
C28_Serializable ==
    /\ [](~IsNone(sequential) =>
            Fields(cumulative_value, last_processed_date) = Val(sequential))
    /\ [][cumulative_value' # cumulative_value =>
            /\ cumulative_value' > cumulative_value
            /\ ~IsNone(last_processed_date')
            /\ last_processed_date' # last_processed_date
            /\ DateLE(last_processed_date, last_processed_date')]_vars

\* C28 witness: with a refresh still in flight, a fetch has completed with
\* fewer readings than the sensor had already counted, and the sensor
\* holds what it had: 4 litres up to the third reading.
C28_Witness ==
    /\ inflight = 1
    /\ last_op = "tick"
    /\ Len(AllReadings(data)) = 1
    /\ cumulative_value = 4
    /\ last_processed_date = Some(FirstHour + 3)

\* The snapshot a coordinator that never ticked before builds from the
\* window, the now and the filter flag of the last tick.
FirstTickSnapshot ==
    AsyncUpdateDataNow(None, consumption_data, None, now, filter_negative_values).data

\* C29: after a tick that succeeded, the snapshot is the one a coordinator
\* with no earlier tick builds from the same window at the same now with
\* the same filter flag, whatever the ticks that came before.
C29_SnapshotFromWindowOnly ==
    (last_op = "tick" /\ IsNone(raised)) => data = FirstTickSnapshot

\* C29 witness: a tick on a window of two readings, on a coordinator whose
\* earlier tick had a window of three (the sensor counted up to the third).
C29_Witness ==
    /\ last_op = "tick"
    /\ IsNone(raised)
    /\ Len(AllReadings(data)) = 2
    /\ last_processed_date = Some(FirstHour + 3)
    /\ data = FirstTickSnapshot

\* ------------------------------------------------ offsets and instants
\* The hours a suffix puts the local time ahead of UTC.
OffsetHours(sfx) == IF sfx = "+01:00" THEN 1 ELSE 0
\* The instant a date string names, in hours of UTC.
Instant(date) == date.ts - OffsetHours(date.sfx)

\* A step in which native_value scanned the coordinator's readings.
ScanStep == last_op' \in {"tick", "read"} /\ inflight' <= inflight

\* C30: when every reading carries the one suffix of the account, the
\* snapshot's readings are in descending order of their instants, and a
\* read counts exactly the readings whose instant is later than that of the
\* reading last_processed_date was taken from: none that is newer is
\* skipped and none that is not newer is counted.
C30_SkipsByTrueInstant ==
    /\ [](\A i, j \in DOMAIN AllReadings(data) :
             i < j => Instant(AllReadings(data)[i].date) >= Instant(AllReadings(data)[j].date))
    /\ [][ScanStep =>
            LET rs == AllReadings(data')
                last == RawDate(Val(last_processed_date), suffix)
                inc == SumSeq([i \in DOMAIN rs |->
                          IF ~Truthy(last_processed_date)
                               \/ Instant(rs[i].date) > Instant(last)
                          THEN rs[i].consumption ELSE 0])
            IN (\A i \in DOMAIN rs : rs[i].date.sfx = suffix) =>
                  cumulative_value' = cumulative_value + (IF inc > 0 THEN inc ELSE 0)]_vars

\* C30 witness: with readings of suffix +01:00, the sensor had counted the
\* first reading; the read of a window of two has skipped it and counted
\* the second, an hour later, which adds no litres.
C30_Witness ==
    /\ suffix = "+01:00"
    /\ last_op = "tick"
    /\ Len(AllReadings(data)) = 2
    /\ Instant(AllReadings(data)[1].date) = FirstHour + 1
    /\ Instant(AllReadings(data)[2].date) = FirstHour
    /\ cumulative_value = 2
    /\ last_processed_date = Some(FirstHour + 1)

Rolled(sfx) ==
    [i \in 1..MaxRoll |->
        IF i < MaxRoll
        THEN WireRecord(RawDate(FirstHour + i, sfx), Some(IF i % 2 = 1 THEN 2 ELSE 0), None)
        ELSE WireRecord(RawDate(FirstHour + MaxRoll - 1, sfx), Some(-1), Some("cil"))]

\* What a fetch can return: any run of them, oldest first.  Old readings
\* leave the window, and a reading can enter it after newer ones did.
RolledWindows ==
    [sfx \in Suffixes |->
        {SubSeq(Rolled(sfx), a, b) : a \in 1..(MaxRoll + 1), b \in 0..MaxRoll}]

\* The integration runs on a fresh sensor that nothing was restored to.
InitRoll ==
    /\ suffix \in Suffixes
    /\ pc = "running"
    /\ consumption_data = <<>>
    /\ filter_negative_values \in {None, Some(TRUE)}
    /\ now = 0
    /\ raised = None
    /\ \E n \in TickNows :
          data = AsyncUpdateDataNow(None, <<>>, None, n, filter_negative_values).data
    /\ last_update_success = TRUE
    /\ cumulative_value = 0
    /\ last_processed_date = None
    /\ value = None
    /\ last_state = None
    /\ restored_ok = FALSE
    /\ last_op = "none"
    /\ pre_fail = None
    /\ pre_restart = None
    /\ ApiInit
    /\ NoRefresh

\* A tick whose fetch returns: _async_update_data builds the snapshot and
\* the sensor's native_value is read.
RollTick ==
    /\ pc = "running"
    /\ \E fetched \in RolledWindows[suffix] :
       \E n \in TickNows :
       \E u \in {AsyncUpdateDataNow(data, fetched, None, n, filter_negative_values)} :
       \E r \in {NativeValue(cumulative_value, last_processed_date, u.data)} :
          /\ consumption_data' = fetched
          /\ now' = n
          /\ raised' = u.raised
          /\ data' = u.data
          /\ last_update_success' = IsNone(u.raised)
          /\ cumulative_value' = r.cumulative_value
          /\ last_processed_date' = r.last_processed_date
          /\ value' = r.value
          /\ seen' = seen \cup {fetched[i] : i \in DOMAIN fetched}
          /\ late' = late \cup {fetched[i] : i \in
                                  {j \in DOMAIN fetched :
                                     /\ fetched[j] \notin seen
                                     /\ Truthy(last_processed_date)
                                     /\ Normalize(fetched[j].date) <= Val(last_processed_date)}}
    /\ last_op' = "tick"
    /\ UNCHANGED <<suffix, pc, last_state, restored_ok, pre_fail, pre_restart,
                   filter_negative_values, apivars, inflight, sequential>>

\* A tick whose fetch raises an API error: UpdateFailed, the data is kept
\* and the sensor is read on it.
RollTickFailed ==
    /\ pc = "running"
    /\ \E e \in ApiErrors :
       \E u \in {AsyncUpdateDataNow(data, <<>>, Some(e), now, filter_negative_values)} :
       \E r \in {NativeValue(cumulative_value, last_processed_date, u.data)} :
          /\ raised' = u.raised
          /\ data' = u.data
          /\ last_update_success' = IsNone(u.raised)
          /\ cumulative_value' = r.cumulative_value
          /\ last_processed_date' = r.last_processed_date
          /\ value' = r.value
    /\ last_op' = "fail"
    /\ UNCHANGED <<suffix, pc, last_state, restored_ok, pre_fail, pre_restart,
                   consumption_data, now, filter_negative_values, apivars,
                   refreshvars>>

NextRoll ==
    \/ RollTick
    \/ RollTickFailed

SpecRoll == InitRoll /\ [][NextRoll]_vars

\* ------------------------------------------- each reading counted once
RECURSIVE SumConsumption(_)
SumConsumption(readings) ==
    IF readings = {} THEN 0
    ELSE LET r == CHOOSE x \in readings : TRUE
         IN Get(r, "consumption", 0) + SumConsumption(readings \ {r})

\* The readings of the window of the step that no earlier window held.
NewToWindow == {consumption_data'[i] : i \in DOMAIN consumption_data'} \ seen

\* Every reading new to the window of the step is newer than every reading
\* seen before, and none repeats a date.
NewAreNewest ==
    /\ \A r \in NewToWindow : \A o \in seen : Normalize(r.date) > Normalize(o.date)
    /\ \A r, o \in seen' : r.date = o.date => r = o

\* C31: from a fresh sensor, through successful ticks on windows of at most
\* KeepReadings readings whose consumptions are not negative, whose dates
\* are distinct and whose new readings are newer than all seen before,
\* cumulative_value after each tick is the sum of the consumptions of the
\* distinct readings seen so far.
C31_EachReadingOnce ==
    /\ [](seen = {} => cumulative_value = 0)
    /\ [][(/\ cumulative_value = SumConsumption(seen)
           /\ \A r \in seen' : Get(r, "consumption", 0) >= 0
           /\ Len(consumption_data') <= KeepReadings
           /\ NewAreNewest)
          => cumulative_value' = SumConsumption(seen')]_vars

\* C31 witness: after a window of the first two readings and a window of
\* the second and the third, the first reading has left the window, the
\* second was scanned twice, and the total is the 4 litres of the three.
C31_Witness ==
    /\ last_op = "tick"
    /\ seen = {Rolled(suffix)[i] : i \in 1..3}
    /\ consumption_data = SubSeq(Rolled(suffix), 2, 3)
    /\ late = {}
    /\ last_processed_date = Some(FirstHour + 3)
    /\ cumulative_value = 4
    /\ cumulative_value = SumConsumption(seen)

\* ---------------------------------------------------- late readings
\* The readings of a window that are not late and are newer than lpd.
OnTime(window, lpd) ==
    {r \in {window[i] : i \in DOMAIN window} \ late' :
        ~Truthy(lpd) \/ Normalize(r.date) > Val(lpd)}

\* C33: a reading first fetched when last_processed_date had reached its
\* date (it arrives late, or it repeats the date of the reading processed
\* last) is added by no tick, that one or a later one: every tick's
\* increment is made of the other readings of its window alone, and a late
\* reading stays at or before last_processed_date.
C33_LateNeverAdded ==
    /\ [](\A r \in late :
             Truthy(last_processed_date) /\ Normalize(r.date) <= Val(last_processed_date))
    /\ [][LET inc == SumConsumption(OnTime(consumption_data', last_processed_date))
          IN cumulative_value' = cumulative_value + (IF inc > 0 THEN inc ELSE 0)]_vars

\* C33 witness: the third reading was counted first; the first reading, of
\* 2 litres, came in a later window with it, and a window after that held
\* them again: the total is the 2 litres of the third.
C33_Witness ==
    /\ last_op = "tick"
    /\ Rolled(suffix)[1] \in late
    /\ consumption_data = SubSeq(Rolled(suffix), 1, 2)
    /\ seen = {Rolled(suffix)[i] : i \in 1..3}
    /\ cumulative_value = 2
    /\ last_processed_date = Some(FirstHour + 3)

Orderings(rs) ==
    {[i \in DOMAIN rs |-> rs[p[i]]] :
        p \in {q \in [DOMAIN rs -> DOMAIN rs] :
                 \A i, j \in DOMAIN rs : q[i] = q[j] => i = j}}

\* C35: the read leaves the cumulative_value and the last_processed_date
\* that a read of any other ordering of the same readings would leave.
C35_OrderIndependent ==
    [][ReadStepAfterUpdate =>
         \A rs \in Orderings(AllReadings(data)) :
            LET r == NativeValue(cumulative_value, last_processed_date,
                                 Some([Val(data) EXCEPT !.all_readings = rs]))
            IN /\ r.cumulative_value = cumulative_value'
               /\ r.last_processed_date = last_processed_date']_vars

\* C35 witness: a fresh sensor has read a window that holds the newer
\* reading, of 2 litres, before the older one, a correction of -1 litre,
\* and has counted both.
C35_Witness ==
    /\ pc = "read"
    /\ Len(AllReadings(data)) = 2
    /\ GoodReading(AllReadings(data)[1])
    /\ GoodReading(AllReadings(data)[2])
    /\ AllReadings(data)[1].date.ts = 2
    /\ AllReadings(data)[1].consumption = 2
    /\ AllReadings(data)[2].date.ts = 1
    /\ AllReadings(data)[2].consumption = -1
    /\ cumulative_value = 1
    /\ last_processed_date = Some(2)

\* ------------------------------------------- the daily total is least
\* C36: with filter_negative_values true every snapshot, of whatever
\* window at whatever clock value, has a daily total that exceeds neither
\* the weekly nor the monthly total.
C36_DailyLeast ==
    (Updated /\ Filtering) =>
       /\ Snapshot.daily_total <= Snapshot.weekly_total
       /\ Snapshot.daily_total <= Snapshot.monthly_total

\* C36 witness: a filtered snapshot of a reading of 2 litres dated today
\* or later and another dated within the week but before the month began:
\* 2 litres for the day and the month, 4 for the week.
C36_Witness ==
    /\ Updated /\ Filtering
    /\ Len(consumption_data) = 2
    /\ \E i, j \in DOMAIN consumption_data :
          /\ DateAt(i) >= Midnight
          /\ DateAt(j) < FirstOfMonth /\ DateAt(j) >= SevenDaysBefore
          /\ ConsumptionAt(i) = 2 /\ ConsumptionAt(j) = 2
    /\ Snapshot.daily_total = 2
    /\ Snapshot.weekly_total = 4
    /\ Snapshot.monthly_total = 2

\* ------------------------------------------------ the two coordinators
\* What the coordinator that did not make the call followed makes of the
\* same window at the same clock value: coordinator_fixed.py's with
\* filter_negative_values false, or coordinator.py's.
OtherCoordinator ==
    IF IsNone(filter_negative_values)
    THEN ProcessConsumptionDataFixed(consumption_data, now, FALSE)
    ELSE ProcessConsumptionDataNow(consumption_data, now)

Totals(snapshot) ==
    <<snapshot.daily_total, snapshot.weekly_total, snapshot.monthly_total>>

\* C37: on every window at every clock value the coordinator the
\* integration loads and the negative-aware coordinator with
\* filter_negative_values false raise alike or return the same daily,
\* weekly and monthly totals: signed sums, not clamped.
C37_SameTotals ==
    (pc = "updated" /\ filter_negative_values \in {None, Some(FALSE)}) =>
       \A other \in {OtherCoordinator} :
          /\ other.raised = raised
          /\ IsNone(raised) => Totals(Val(other.value)) = Totals(Snapshot)

\* C37 witness: coordinator.py's snapshot of a window with a correction
\* dated today has a negative daily total, as the other coordinator's has.
C37_Witness ==
    /\ Updated /\ IsNone(filter_negative_values)
    /\ Snapshot.daily_total < 0
    /\ Snapshot.weekly_total < 0
    /\ Totals(Val(OtherCoordinator.value)) = Totals(Snapshot)

\* ------------------------------------------- logins and the token sent
\* A step in which the client sent a request to the login endpoint, or to
\* a data endpoint.
LoginSent ==
    /\ exchange' # exchange
    /\ ~IsNone(exchange')
    /\ Val(exchange').endpoint = "login"
DataSent ==
    /\ exchange' # exchange
    /\ ~IsNone(exchange')
    /\ Val(exchange').endpoint = "data"

\* The last exchange of the call was a data request answered 401.
Rejected ==
    /\ ~IsNone(exchange)
    /\ LastExchange.endpoint = "data"
    /\ ~LastExchange.response.client_error
    /\ LastExchange.response.status = 401

\* C38: the client logs in only when it holds no token or the data request
\* just sent was answered 401; a data request carries the token the client
\* holds, which after a login is the token that login's response brought;
\* and between calls, and at the head of a call made with a token, the
\* token is kept and no login is made.
C38_LoginOnlyWhenNeeded ==
    /\ [][LoginSent => (~HasToken(auth_token) \/ Rejected)]_vars
    /\ [][DataSent =>
            /\ Val(exchange').token = auth_token
            /\ HasToken(auth_token)
            /\ (~IsNone(exchange) /\ LastExchange.endpoint = "login") =>
                  Val(exchange').token = LastExchange.response.header]_vars
    /\ [][(api_pc = "idle" \/ (api_pc = "entry" /\ HasToken(auth_token))) =>
            auth_token' = auth_token /\ ~LoginSent]_vars

\* C38 witness: a call of get_consumption was answered 401, logged in
\* again and was given tokenB, and its second request, sent with tokenB,
\* returned the empty list.
C38_Witness ==
    /\ CallEnded
    /\ api_method = "get_consumption"
    /\ requests = 2
    /\ reauths = 1
    /\ LastExchange.endpoint = "data"
    /\ LastExchange.token = Some("tokenB")
    /\ auth_token = Some("tokenB")
    /\ Outcome = Returned("[]")

====
